---- MODULE Spec2Model ----
(***************************************************************************)
(* A model of the UILAAT translation engine (src/uilaat.py):               *)
(*   CodePointOffsetLookup, RangeIndexedList, TranslationDict, JSONRepo.   *)
(*                                                                         *)
(* Conventions                                                             *)
(*   - a Python str is a sequence of code points; chr(n) is <<n>>;         *)
(*   - Python's None is the sequence NoneVal (no str contains -1);         *)
(*   - the outcome of a call is a record [kind, val]: kind is "ok" or the  *)
(*     name of the exception raised, val the returned str (<<>> if none);  *)
(*   - Python list indices are 0-based, TLA+ sequences 1-based: s[i] in    *)
(*     the source is s[i+1] here.                                          *)
(***************************************************************************)
EXTENDS Integers, Sequences, FiniteSets, TLC

VARIABLES
    cpol,       \* the CodePointOffsetLookup object: _start, _end, _offset
    cp_op,      \* the last call made on it and its arguments
    cp_res,     \* the outcome of that call
    ril,        \* the RangeIndexedList object: _bounds, _values, _copy_key
    ril_op,     \* the last call made on it (and the key of a lookup)
    ril_res,    \* the outcome of that call
    ril_args,   \* the arguments of the last constructor call
    td,         \* the TranslationDict object: its items and out_default
    td_op,      \* the last call made on it and its arguments
    td_res,     \* the outcome of that call
    td_dict,    \* the dict get_dict returned, when it was the last call
    files,      \* the JSON files of the repository directory, by name
    tmp,        \* JSONRepo._tmp: the loaded files, lowest precedence first
    memo,       \* JSONRepo._filename_memo
    current_db_name,    \* JSONRepo.current_db_name
    repo_op,    \* the last call made on the repository and its argument
    repo_res,   \* the outcome of that call
    gt,         \* what get_trans returned, when it was the last call
    repos,      \* TextProcessor.repos: the bound repositories, in binding order
    trans_dicts,    \* TextProcessor.trans_dicts: the loaded bundles
    meta,       \* TextProcessor.meta: the metadata of the loaded bundles
    trans_ops_list, \* TextProcessor.trans_ops_list
    tp_op,      \* the last call made on the processor and its arguments
    tp_res,     \* the outcome of that call
    repo_dict,  \* the dict that is the default of __init__'s repo_dict
    tps,        \* the TextProcessor instances tp1 and tp2
    inst_op     \* the last call made on an instance

cpVars == <<cpol, cp_op, cp_res>>
rilVars == <<ril, ril_op, ril_res, ril_args>>
tdVars == <<td, td_op, td_res, td_dict>>
repoVars == <<files, tmp, memo, current_db_name, repo_op, repo_res, gt>>
tpVars == <<repos, trans_dicts, meta, trans_ops_list, tp_op, tp_res>>
instVars == <<repo_dict, tps, inst_op>>
vars == <<cpVars, rilVars, tdVars, repoVars, tpVars, instVars>>

----------------------------------------------------------------------------
(* Program constants *)

SUBPOINT == 65532
MaxCodePoint == 1114111
CODE_OFFSET == 63505
CODE_REGEX == 63506
CODE_RANGE == 63507

(* Bounds of the model *)

\* integers 0..MaxCP and MaxCodePoint-MaxCP..MaxCodePoint are the code
\* points the offset lookup is exercised with
MaxCP == 2

\* keys and bounds of a RangeIndexedList under lookup and insert: 0..MaxKey
MaxKey == 6

\* bounds handed to the RangeIndexedList constructor: drawn from 0..MaxNewKey
MaxNewKey == 7

\* unsorted bounds handed to the constructor: at most MaxRawLen long, over
\* 0..MaxRawKey
MaxRawLen == 3
MaxRawKey == 2

\* at most MaxVals values are handed to the constructor
MaxVals == 4

\* a file's trans-include list names at most MaxInc files
MaxInc == 2

\* get_trans is called with the selectors 0..MaxN
MaxN == 2

\* the operations list of a TextProcessor holds at most MaxOps names
MaxOps == 2

\* translate is called with strings of at most MaxStr characters
MaxStr == 2

----------------------------------------------------------------------------
(* Shared helpers *)

NoneVal == <<-1>>

\* Python's True (RangeIndexedList.DEFAULT_VALUE): no str contains -2
TrueVal == <<-2>>

is_odd(x) == x % 2 # 0

Contains(str, c) == \E i \in 1 .. Len(str) : str[i] = c

\* str.replace(SUBPOINT, by): every occurrence is replaced
RECURSIVE Replace(_, _)
Replace(str, by) ==
    IF str = <<>> THEN <<>>
    ELSE (IF Head(str) = SUBPOINT THEN by ELSE <<Head(str)>>)
             \o Replace(Tail(str), by)

\* the elements of a set of integers, smallest first
RECURSIVE SortedSeq(_)
SortedSeq(S) ==
    IF S = {} THEN <<>>
    ELSE LET m == CHOOSE x \in S : \A y \in S : x <= y
         IN <<m>> \o SortedSeq(S \ {m})

\* list.insert(i, x) for i >= 0: past the end of the list it appends
ListInsert(lst, i, x) ==
    IF i >= Len(lst) THEN Append(lst, x)
    ELSE SubSeq(lst, 1, i) \o <<x>> \o SubSeq(lst, i + 1, Len(lst))

chr(n) == <<n>>

Ok(v) == [kind |-> "ok", val |-> v]
Raise(e) == [kind |-> e, val |-> <<>>]
NoRes == [kind |-> "none", val |-> <<>>]

----------------------------------------------------------------------------
(* CodePointOffsetLookup *)

CPInts == (0 .. MaxCP) \cup ((MaxCodePoint - MaxCP) .. MaxCodePoint)
CPArgs == {-1} \cup CPInts
CPOffsets == (0 - MaxCP) .. MaxCP
CPKeys == CPArgs \cup {MaxCodePoint + 1}

NoCPOL == [made |-> FALSE, start |-> 0, end |-> 0, offset |-> 0]

\* CodePointOffsetLookup.__init__: the validation of start, end and offset
CPOLValidate(start, end, offset) ==
    IF start < 0 \/ end < 0 THEN "ValueError"
    ELSE IF start > end THEN "ValueError"
    ELSE IF start + offset < 0 THEN "ValueError"
    ELSE "ok"

\* CodePointOffsetLookup.__getitem__
CPOLGetItemMut(c, key) ==
    IF key > c.end THEN Raise("LookupError")
    ELSE IF key < c.start THEN Raise("LookupError")
    ELSE LET out == key + c.offset IN
         IF out < 0 THEN Raise("ValueError")
         ELSE Ok(chr(out))

CPOLGetItem(c, key) ==
    IF key > c.end THEN Raise("LookupError")
    ELSE IF key < c.start THEN Raise("LookupError")
    ELSE LET out == key + c.offset IN
         IF out < 0 THEN Raise("ValueError")
         ELSE IF out > MaxCodePoint THEN Raise("LookupError")
         ELSE Ok(chr(out))

NoRIL == [made |-> FALSE, bounds |-> <<>>, values |-> <<>>, copy_key |-> FALSE]

NoArgs == [bounds |-> <<>>, none |-> TRUE, values |-> <<>>]

RILIdle ==
    /\ ril = NoRIL
    /\ ril_op = [name |-> "none", key |-> 0]
    /\ ril_res = NoRes
    /\ ril_args = NoArgs

\* dict keys: the int n is IntKey(n), the str s is StrKey(s)
IntKey(n) == [int |-> TRUE, s |-> <<n>>]
StrKey(str) == [int |-> FALSE, s |-> str]
ord(c) == c[1]

\* a dict is a function from keys to values
EmptyDict == [k \in {} |-> <<>>]
Put(d, k, v) == [x \in (DOMAIN d) \cup {k} |-> IF x = k THEN v ELSE d[x]]

\* TranslationDict(): no items, out_default is SUBPOINT
NewTD == [map |-> EmptyDict, out_default |-> <<SUBPOINT>>]

TDIdle ==
    /\ td = NewTD
    /\ td_op = [name |-> "none", key |-> IntKey(0), value |-> <<>>]
    /\ td_res = NoRes
    /\ td_dict = EmptyDict

\* current_db_name is None
NoDB == "<None>"

\* what get_trans leaves when it was not the last call
NoTrans == [none |-> TRUE, td |-> NewTD, dls |-> <<>>]

\* JSONRepo.__init__, but for the directory's files
FreshRepo ==
    /\ tmp = <<>>
    /\ memo = <<>>
    /\ current_db_name = NoDB
    /\ repo_op = [name |-> "none", db |-> NoDB, n |-> 0]
    /\ repo_res = NoRes
    /\ gt = NoTrans

RepoIdle ==
    /\ files = [f \in {} |-> <<>>]
    /\ FreshRepo

\* TextProcessor.__init__, before any repository is bound
NoCall == [name |-> "none", fq |-> FALSE, repo |-> "", db |-> "", n |-> 0,
           s |-> <<>>]
FreshTP ==
    /\ trans_dicts = <<>>
    /\ meta = <<>>
    /\ trans_ops_list = <<>>
    /\ tp_op = NoCall
    /\ tp_res = NoRes

TPIdle ==
    /\ repos = <<>>
    /\ FreshTP

\* no TextProcessor instance exists; the default dict of __init__ is the
\* empty dict the def statement made.  An instance is [made, noarg, repos,
\* trans_dicts, trans_ops_list]: noarg tells that it was created without
\* arguments, so that its repos is the default dict; repos is its own dict
\* otherwise.  A dict of repositories is the list of its keys
InstIds == {1, 2}
NoInst == [made |-> FALSE, noarg |-> FALSE, repos |-> <<>>,
           trans_dicts |-> <<>>, trans_ops_list |-> <<>>]
InstIdle ==
    /\ repo_dict = <<>>
    /\ tps = [i \in InstIds |-> NoInst]
    /\ inst_op = [name |-> "none", inst |-> 0, repo |-> ""]

CPIdle ==
    /\ cpol = NoCPOL
    /\ cp_op = [name |-> "none", key |-> 0]
    /\ cp_res = NoRes

\* cpol = CodePointOffsetLookup(start, end, offset)
CPNew(start, end, offset) ==
    /\ cp_op' = [name |-> "new", key |-> 0]
    /\ UNCHANGED <<rilVars, tdVars, repoVars, tpVars, instVars>>
    /\ IF CPOLValidate(start, end, offset) = "ok"
       THEN /\ cpol' = [made |-> TRUE, start |-> start, end |-> end,
                        offset |-> offset]
            /\ cp_res' = Ok(<<>>)
       ELSE /\ cpol' = NoCPOL
            /\ cp_res' = Raise(CPOLValidate(start, end, offset))

\* cpol[key]
CPGet(key) ==
    /\ cpol.made
    /\ UNCHANGED <<rilVars, tdVars, repoVars, tpVars, instVars>>
    /\ cp_op' = [name |-> "getitem", key |-> key]
    /\ cp_res' = CPOLGetItem(cpol, key)
    /\ UNCHANGED cpol

CPInit == CPIdle /\ InstIdle /\ RILIdle /\ TDIdle /\ TPIdle /\ RepoIdle

CPNext ==
    \/ \E start \in CPArgs, end \in CPArgs, offset \in CPOffsets :
           CPNew(start, end, offset)
    \/ \E key \in CPKeys : CPGet(key)

SpecCPOL == CPInit /\ [][CPNext]_vars

CPInRange == cpol.start <= cp_op.key /\ cp_op.key <= cpol.end
CPLooked == cpol.made /\ cp_op.name = "getitem"

\* C1 (as stated): on a constructed lookup every key of [start, end] returns
\* chr(key + offset) and every other key raises LookupError.
C1_AsStated ==
    CPLooked =>
        IF CPInRange THEN cp_res = Ok(chr(cp_op.key + cpol.offset))
        ELSE cp_res = Raise("LookupError")

\* C1 (amended): on a constructed lookup a key of [start, end] returns
\* chr(key + offset) when key + offset <= 0x10FFFF and raises LookupError
\* when key + offset > 0x10FFFF; every key outside [start, end] raises
\* LookupError.
C1_OffsetLookup ==
    CPLooked =>
        IF CPInRange /\ cp_op.key + cpol.offset <= MaxCodePoint
        THEN cp_res = Ok(chr(cp_op.key + cpol.offset))
        ELSE cp_res = Raise("LookupError")

\* a key strictly inside a range of several keys was shifted by a
\* non-zero offset
C1_Witness ==
    /\ CPLooked
    /\ cpol.start < cp_op.key /\ cp_op.key < cpol.end
    /\ cpol.offset # 0
    /\ cp_res = Ok(chr(cp_op.key + cpol.offset))

----------------------------------------------------------------------------
(* RangeIndexedList *)

\* RangeIndexedList._do_index: <<index, found>>, index 0-based
RECURSIVE DoIndexLoop(_, _, _, _)
DoIndexLoopMut(bounds, key, i_start, i_end) ==
    IF i_end - i_start > 1
    THEN LET i == i_start + ((i_end - i_start) \div 2)
             k_rk == bounds[i + 1]
         IN IF key = k_rk THEN <<i, TRUE>>
            ELSE IF key <= k_rk THEN DoIndexLoop(bounds, key, i_start, i)
            ELSE DoIndexLoop(bounds, key, i, i_end)
    ELSE <<i_start, key = bounds[i_start + 1]>>

DoIndexLoop(bounds, key, i_start, i_end) ==
    IF i_end - i_start > 1
    THEN LET i == i_start + ((i_end - i_start) \div 2)
             k_rk == bounds[i + 1]
         IN IF key = k_rk THEN <<i, TRUE>>
            ELSE IF key <= k_rk THEN DoIndexLoop(bounds, key, i_start, i)
            ELSE DoIndexLoop(bounds, key, i, i_end)
    ELSE IF key > bounds[i_start + 1]
         THEN <<i_end, key = bounds[i_end + 1]>>
         ELSE <<i_start, key = bounds[i_start + 1]>>

DoIndex(bounds, key) ==
    IF key > bounds[Len(bounds)] THEN <<Len(bounds), FALSE>>
    ELSE DoIndexLoop(bounds, key, 0, Len(bounds) - 1)

\* RangeIndexedList.__getitem__
RILGetItemMut(r, key) ==
    LET ix == DoIndex(r.bounds, key)
        i == ix[1]
        found == ix[2]
    IN  IF ~found /\ (i = 0 \/ i = Len(r.bounds) \/ is_odd(i))
        THEN Raise("LookupError")
        ELSE IF Len(r.values) # 1 /\ i \div 2 >= Len(r.values)
        THEN Raise("IndexError")
        ELSE LET out == IF Len(r.values) = 1 THEN r.values[1]
                        ELSE r.values[(i \div 2) + 1]
             IN IF ~r.copy_key THEN Ok(out)
                ELSE IF out = NoneVal THEN Ok(NoneVal)
                ELSE IF Contains(out, SUBPOINT)
                THEN Ok(Replace(out, chr(key)))
                ELSE Ok(out)

RILGetItem(r, key) ==
    LET ix == DoIndex(r.bounds, key)
        i == ix[1]
        found == ix[2]
    IN  IF ~found /\ (i = 0 \/ i = Len(r.bounds) \/ ~is_odd(i))
        THEN Raise("LookupError")
        ELSE IF Len(r.values) # 1 /\ i \div 2 >= Len(r.values)
        THEN Raise("IndexError")
        ELSE LET out == IF Len(r.values) = 1 THEN r.values[1]
                        ELSE r.values[(i \div 2) + 1]
             IN IF ~r.copy_key THEN Ok(out)
                ELSE IF out = NoneVal THEN Ok(NoneVal)
                ELSE IF Contains(out, SUBPOINT)
                THEN Ok(Replace(out, chr(key)))
                ELSE Ok(out)

\* RangeIndexedList.validate, as __init__ calls it; values is the list the
\* caller passed (none: the caller passed None)
RILValidate(bounds, none, values) ==
    IF is_odd(Len(bounds)) THEN "ValueError"
    ELSE IF ~none /\ Len(values) = 0 THEN "ZeroDivisionError"
    ELSE IF ~none /\ Len(bounds) \div Len(values) # 2 /\ Len(values) # 1
    THEN "ValueError"
    ELSE IF Len(bounds) = 0 THEN "IndexError"
    ELSE IF \E i \in 2 .. Len(bounds) : bounds[i] <= bounds[i - 1]
    THEN "ValueError"
    ELSE "ok"

\* the object RangeIndexedList.__init__ builds (default is DEFAULT_VALUE)
RILObject(bounds, none, values, copy_key) ==
    [made |-> TRUE, bounds |-> bounds,
     values |-> IF none THEN <<TrueVal>> ELSE values,
     copy_key |-> copy_key]

\* the loop of RangeIndexedList.insert from the pair that starts at
\* new_keys[i_nk - 1] on: the table it leaves and how it ends
RECURSIVE InsertLoop(_, _, _, _)
InsertLoopMut(r, new_keys, new_values, i_nk) ==
    IF i_nk >= Len(new_keys) THEN [r |-> r, kind |-> "ok"]
    ELSE LET ks == new_keys[i_nk]
             ke == new_keys[i_nk + 1]
             st == DoIndex(r.bounds, ks)
             en == DoIndex(r.bounds, ke)
             ist == st[1]
             iend == en[1]
         IN IF is_odd(ist) \/ st[2] \/ en[2]
            THEN [r |-> r, kind |-> "ValueError"]
            ELSE IF ke - ks < 1 THEN [r |-> r, kind |-> "ValueError"]
            ELSE InsertLoop(
                   [r EXCEPT
                      !.bounds = ListInsert(ListInsert(r.bounds, ist, ke),
                                            ist, ks),
                      !.values = ListInsert(r.values, iend \div 2,
                                            new_values[(i_nk \div 2) + 1])],
                   new_keys, new_values, i_nk + 2)

InsertLoop(r, new_keys, new_values, i_nk) ==
    IF i_nk >= Len(new_keys) THEN [r |-> r, kind |-> "ok"]
    ELSE LET ks == new_keys[i_nk]
             ke == new_keys[i_nk + 1]
             st == DoIndex(r.bounds, ks)
             en == DoIndex(r.bounds, ke)
             ist == st[1]
             iend == en[1]
         IN IF ist # iend THEN [r |-> r, kind |-> "ValueError"]
            ELSE IF is_odd(ist) \/ st[2] \/ en[2]
            THEN [r |-> r, kind |-> "ValueError"]
            ELSE IF ke - ks < 1 THEN [r |-> r, kind |-> "ValueError"]
            ELSE InsertLoop(
                   [r EXCEPT
                      !.bounds = ListInsert(ListInsert(r.bounds, ist, ke),
                                            ist, ks),
                      !.values = ListInsert(r.values, iend \div 2,
                                            new_values[(i_nk \div 2) + 1])],
                   new_keys, new_values, i_nk + 2)

\* RangeIndexedList.insert; new_values is the list the caller passed
\* (none: the caller passed None)
RILInsert(r, new_keys, none, new_values) ==
    LET nv == IF none THEN [i \in 1 .. (Len(new_keys) \div 2) |-> TrueVal]
              ELSE new_values
    IN  IF is_odd(Len(new_keys)) THEN [r |-> r, kind |-> "ValueError"]
        ELSE IF Len(nv) # Len(new_keys) \div 2
        THEN [r |-> r, kind |-> "ValueError"]
        ELSE InsertLoop(r, new_keys, nv, 1)

(* Inputs *)

RKeys == 0 .. MaxKey
RVals == {<<97>>, <<SUBPOINT, 98>>}

\* the values argument: None, or a list
ValueArgs(maxlen) ==
    {[none |-> TRUE, v |-> <<>>]}
        \cup {[none |-> FALSE, v |-> x] :
                 x \in UNION {[1 .. m -> RVals] : m \in 0 .. maxlen}}

\* the bounds argument of the constructor: sorted lists of distinct keys,
\* and short lists in any order
NewBounds ==
    {SortedSeq(S) : S \in SUBSET (0 .. MaxNewKey)}
        \cup UNION {[1 .. m -> 0 .. MaxRawKey] : m \in 0 .. MaxRawLen}

\* the new_keys argument of insert: any one pair of keys, two ranges of two
\* adjacent keys each, and lists of length 0 and 1
UnitRanges == {<<k, k + 1>> : k \in 0 .. (MaxKey - 1)}
InsertKeys ==
    [1 .. 2 -> RKeys] \cup {p \o q : p \in UnitRanges, q \in UnitRanges}
        \cup {<<>>, <<0>>}

\* the new_values argument of insert: None, or a list
InsertValues ==
    {[none |-> TRUE, v |-> <<>>]}
        \cup {[none |-> FALSE, v |-> [i \in 1 .. m |-> <<SUBPOINT, 98>>]] :
                 m \in 0 .. 2}

(* Operations *)

\* ril = RangeIndexedList(bounds, values, copy_key=copy_key)
RILNew(bounds, a, copy_key) ==
    /\ ril_op.name = "none"
    /\ ril_op' = [name |-> "new", key |-> 0]
    /\ ril_args' = [bounds |-> bounds, none |-> a.none, values |-> a.v]
    /\ IF RILValidate(bounds, a.none, a.v) = "ok"
       THEN /\ ril' = RILObject(bounds, a.none, a.v, copy_key)
            /\ ril_res' = Ok(<<>>)
       ELSE /\ ril' = NoRIL
            /\ ril_res' = Raise(RILValidate(bounds, a.none, a.v))
    /\ UNCHANGED <<cpVars, tdVars, repoVars, tpVars, instVars>>

\* ril[key]
RILGet(key) ==
    /\ ril.made
    /\ ril_op' = [name |-> "getitem", key |-> key]
    /\ ril_res' = RILGetItem(ril, key)
    /\ UNCHANGED <<ril, ril_args, cpVars, tdVars, repoVars, tpVars,
                   instVars>>

\* ril.insert(new_keys, new_values)
RILIns(new_keys, a) ==
    /\ ril.made
    /\ ril_op' = [name |-> "insert", key |-> 0]
    /\ LET out == RILInsert(ril, new_keys, a.none, a.v)
       IN /\ ril' = out.r
          /\ ril_res' = IF out.kind = "ok" THEN Ok(<<>>) ELSE Raise(out.kind)
    /\ UNCHANGED <<ril_args, cpVars, tdVars, repoVars, tpVars, instVars>>

\* the name ril is unbound again (del ril)
RILDel ==
    /\ ril_op.name = "new"
    /\ ril' = NoRIL
    /\ ril_op' = [name |-> "none", key |-> 0]
    /\ ril_res' = NoRes
    /\ ril_args' = NoArgs
    /\ UNCHANGED <<cpVars, tdVars, repoVars, tpVars, instVars>>

\* construction alone, on well-formed and ill-formed arguments
RILNewInit == CPIdle /\ InstIdle /\ RILIdle /\ TDIdle /\ TPIdle /\ RepoIdle

RILNewNext ==
    \/ \E bounds \in NewBounds, a \in ValueArgs(MaxVals),
           copy_key \in BOOLEAN : RILNew(bounds, a, copy_key)
    \/ RILDel

SpecRILNew == RILNewInit /\ [][RILNewNext]_vars

\* lookups and inserts, from every table the constructor accepts
RILInit ==
    /\ CPIdle /\ InstIdle /\ TDIdle /\ TPIdle /\ RepoIdle
    /\ ril_op = [name |-> "new", key |-> 0]
    /\ ril_res = Ok(<<>>)
    /\ ril_args = NoArgs
    /\ \E S \in SUBSET RKeys, a \in ValueArgs(MaxKey \div 2),
          copy_key \in BOOLEAN :
           /\ RILValidate(SortedSeq(S), a.none, a.v) = "ok"
           /\ ril = RILObject(SortedSeq(S), a.none, a.v, copy_key)

RILNext ==
    \/ \E key \in RKeys : RILGet(key)
    \/ \E new_keys \in InsertKeys, a \in InsertValues : RILIns(new_keys, a)

SpecRIL == RILInit /\ [][RILNext]_vars

(* Claims about RangeIndexedList *)

NRanges(r) == Len(r.bounds) \div 2
InRange(r, i, k) == r.bounds[2 * i - 1] <= k /\ k <= r.bounds[2 * i]
InSomeRange(r, k) == \E i \in 1 .. NRanges(r) : InRange(r, i, k)

\* what copy_key makes of a value looked up under key k
Shown(r, v, k) ==
    IF r.copy_key /\ v # NoneVal THEN Replace(v, chr(k)) ELSE v

C3_AsStated ==
    [][(ril_op'.name = "insert" /\ ril_res'.kind # "ok") => ril' = ril]_vars

\* the values argument of an insert of one range with value v
OneValue(v) == [none |-> FALSE, v |-> <<v>>]

\* the 0-based index of k in bounds
IndexOf(bounds, k) == (CHOOSE i \in 1 .. Len(bounds) : bounds[i] = k) - 1

\* lst without its element at 0-based index i
Without(lst, i) == SubSeq(lst, 1, i) \o SubSeq(lst, i + 2, Len(lst))

\* C4: insert of one range (ks, ke) with value v succeeds iff ks < ke and no
\* key of [ks, ke] lies in an existing range; then bounds is the old bounds
\* with ks and ke at their sorted position, v sits in values at half the
\* index of ks, and the other values are the old values in their order.
C4_AsStated ==
    [][\A ks \in RKeys, ke \in RKeys :
          LET v == <<SUBPOINT, 98>>
              free == \A k \in ks .. ke : ~InSomeRange(ril, k)
              half == IndexOf(ril'.bounds, ks) \div 2
          IN RILIns(<<ks, ke>>, OneValue(v)) =>
                 /\ ril_res'.kind = "ok" <=> (ks < ke /\ free)
                 /\ ril_res'.kind = "ok" =>
                        /\ ril'.bounds =
                               SortedSeq({ril.bounds[i] :
                                             i \in 1 .. Len(ril.bounds)}
                                         \cup {ks, ke})
                        /\ half < Len(ril'.values)
                        /\ ril'.values[half + 1] = v
                        /\ Without(ril'.values, half) = ril.values]_vars

\* C5: construction fails, and no object is made, whenever bounds has odd
\* length, or the number of values is neither 1 nor len(bounds)/2, or some
\* bound is not greater than the one before it; it succeeds otherwise.
\* (Stated for a non-empty bounds list and a non-empty values list: on an
\* empty one the constructor raises IndexError or ZeroDivisionError.)
C5_AsStated ==
    (/\ ril_op.name = "new"
     /\ Len(ril_args.bounds) > 0
     /\ ril_args.none \/ Len(ril_args.values) > 0) =>
        LET b == ril_args.bounds
            n == IF ril_args.none THEN 1 ELSE Len(ril_args.values)
            bad == \/ is_odd(Len(b))
                   \/ n # 1 /\ 2 * n # Len(b)
                   \/ \E i \in 2 .. Len(b) : b[i] <= b[i - 1]
        IN IF bad THEN ril_res.kind # "ok" /\ ~ril.made
           ELSE ril_res.kind = "ok" /\ ril.made

\* bounds of ranges in order, start <= end, with at least one point range
PointBounds(b) ==
    /\ Len(b) > 0 /\ ~is_odd(Len(b))
    /\ \A i \in 1 .. Len(b) - 1 :
           IF is_odd(i) THEN b[i] <= b[i + 1] ELSE b[i] < b[i + 1]
    /\ \E i \in 1 .. Len(b) - 1 : is_odd(i) /\ b[i] = b[i + 1]

\* C23: a RangeIndexedList can be constructed with the default options from
\* bounds that contain a point range (start = end), with one value per
\* range, and the lookup of every bound bounds[i] then returns values[i//2].
C23_AsStated ==
    (/\ ril_op.name = "new"
     /\ PointBounds(ril_args.bounds)
     /\ ~ril_args.none
     /\ 2 * Len(ril_args.values) = Len(ril_args.bounds)) =>
        /\ ril_res.kind = "ok"
        /\ ril.made
        /\ \A i \in 1 .. Len(ril_args.bounds) :
               RILGetItem(ril, ril_args.bounds[i]) =
                   Ok(Shown(ril, ril_args.values[(i + 1) \div 2],
                            ril_args.bounds[i]))

\* C26: after construction and after any sequence of insert calls, accepted
\* or rejected, bounds has even length and every bound is greater than the
\* one before it.
C26_BoundsInvariant ==
    /\ ~is_odd(Len(ril.bounds))
    /\ \A i \in 2 .. Len(ril.bounds) : ril.bounds[i] > ril.bounds[i - 1]

\* an insert without values put a range, and the default value with it,
\* between two ranges of a table
C26_Witness ==
    /\ ril_op.name = "insert"
    /\ ril_res.kind = "ok"
    /\ Len(ril.bounds) = 6
    /\ ril.values = <<<<97>>, TrueVal, <<97>>>>

\* values holds one shared value, or one value per range
ValuesFit(r) == Len(r.values) = 1 \/ Len(r.values) = NRanges(r)

\* C27: construction leaves one shared value or one value per range in
\* values, and a successful insert keeps it so, tables with one shared value
\* for two or more ranges included.
C27_AsStated ==
    [][(/\ ril_op'.name = "insert"
        /\ ril_res'.kind = "ok"
        /\ ValuesFit(ril)) => ValuesFit(ril')]_vars

\* the key of the last lookup lies between the first and the last bound and
\* the bound search did not find it
NotFoundWithin ==
    /\ ril_op.name = "getitem"
    /\ ril.bounds[1] <= ril_op.key
    /\ ril_op.key <= ril.bounds[Len(ril.bounds)]
    /\ ~DoIndex(ril.bounds, ril_op.key)[2]

----------------------------------------------------------------------------
(* TranslationDict *)

\* TranslationDict.__setitem__
TDSetItemMut(t, key, value) ==
    IF ~key.int /\ key.s = <<>>
    THEN [t EXCEPT !.map = Put(t.map, StrKey(<<>>), value)]
    ELSE IF ~key.int /\ Len(key.s) = 1
    THEN [t EXCEPT !.map = Put(t.map, IntKey(ord(key.s)), value)]
    ELSE [t EXCEPT !.map = Put(t.map, key, value)]

TDSetItem(t, key, value) ==
    IF ~key.int /\ key.s = <<>>
    THEN [map |-> Put(t.map, StrKey(<<>>), value), out_default |-> value]
    ELSE IF ~key.int /\ Len(key.s) = 1
    THEN [t EXCEPT !.map = Put(t.map, IntKey(ord(key.s)), value)]
    ELSE [t EXCEPT !.map = Put(t.map, key, value)]

\* TranslationDict.__getitem__
TDGetItem(t, key) ==
    LET out == IF key \in DOMAIN t.map THEN t.map[key] ELSE t.out_default
        keycopy == IF key.int THEN chr(key.s[1]) ELSE key.s
    IN  IF out = NoneVal THEN NoneVal
        ELSE IF Contains(out, SUBPOINT) THEN Replace(out, keycopy)
        ELSE out

\* TranslationDict.get_dict
TDGetDictOf(t) == [k \in DOMAIN t.map |-> TDGetItem(t, k)]

(* Inputs *)

TDKeys ==
    {IntKey(97), IntKey(98), StrKey(<<>>), StrKey(<<97>>), StrKey(<<97, 98>>)}
TDValues == {<<120>>, <<SUBPOINT, 121>>, NoneVal}

(* Operations *)

\* td[key] = value
TDSet(key, value) ==
    /\ td' = TDSetItem(td, key, value)
    /\ td_op' = [name |-> "set", key |-> key, value |-> value]
    /\ td_res' = Ok(<<>>)
    /\ td_dict' = EmptyDict
    /\ UNCHANGED <<cpVars, rilVars, repoVars, tpVars, instVars>>

\* td[key]
TDGet(key) ==
    /\ td_op' = [name |-> "get", key |-> key, value |-> <<>>]
    /\ td_res' = Ok(TDGetItem(td, key))
    /\ td_dict' = EmptyDict
    /\ UNCHANGED <<td, cpVars, rilVars, repoVars, tpVars, instVars>>

\* td.get_dict()
TDGetDict ==
    /\ td_op' = [name |-> "get_dict", key |-> IntKey(0), value |-> <<>>]
    /\ td_res' = Ok(<<>>)
    /\ td_dict' = TDGetDictOf(td)
    /\ UNCHANGED <<td, cpVars, rilVars, repoVars, tpVars, instVars>>

\* td.reset_default()
TDReset ==
    /\ td' = [td EXCEPT !.out_default =
                 IF StrKey(<<>>) \in DOMAIN td.map THEN td.map[StrKey(<<>>)]
                 ELSE <<SUBPOINT>>]
    /\ td_op' = [name |-> "reset_default", key |-> IntKey(0), value |-> <<>>]
    /\ td_res' = Ok(<<>>)
    /\ td_dict' = EmptyDict
    /\ UNCHANGED <<cpVars, rilVars, repoVars, tpVars, instVars>>

TDInit == CPIdle /\ InstIdle /\ RILIdle /\ TDIdle /\ TPIdle /\ RepoIdle

TDNext ==
    \/ \E key \in TDKeys, value \in TDValues : TDSet(key, value)
    \/ \E key \in TDKeys : TDGet(key)
    \/ TDGetDict
    \/ TDReset

SpecTD == TDInit /\ [][TDNext]_vars

(* Claims about TranslationDict *)

DefaultKey == StrKey(<<>>)

\* C6: a lookup of an int key that is not in the map returns chr(key) when
\* the map has no default entry, and otherwise the default entry's value
\* with the placeholder marker replaced by chr(key) (None when that value
\* is None); set('', d) makes d the default entry that later lookups use.
C6_AbsentKey ==
    /\ (td_op.name = "get" /\ td_op.key.int /\ td_op.key \notin DOMAIN td.map)
       => LET c == chr(td_op.key.s[1]) IN
          IF DefaultKey \notin DOMAIN td.map THEN td_res = Ok(c)
          ELSE IF td.map[DefaultKey] = NoneVal THEN td_res = Ok(NoneVal)
          ELSE td_res = Ok(Replace(td.map[DefaultKey], c))
    /\ (td_op.name = "set" /\ td_op.key = DefaultKey)
       => td.map[DefaultKey] = td_op.value

\* an absent int key was looked up after a default with the placeholder
\* marker was set, and the answer is the default with the key in it
C6_Witness ==
    /\ td_op.name = "get" /\ td_op.key = IntKey(98)
    /\ IntKey(98) \notin DOMAIN td.map
    /\ IntKey(97) \in DOMAIN td.map
    /\ DefaultKey \in DOMAIN td.map
    /\ td.map[DefaultKey] = <<SUBPOINT, 121>>
    /\ td_res = Ok(<<98, 121>>)

\* C7: get(k) right after set(k, v), with v a str without the placeholder
\* marker, returns v, whether k is an int, a one-character str or a longer
\* str.
C7_AsStated ==
    [][(/\ td_op.name = "set"
        /\ td_op.value # NoneVal /\ ~Contains(td_op.value, SUBPOINT)
        /\ td_op'.name = "get" /\ td_op'.key = td_op.key)
       => td_res' = Ok(td_op.value)]_vars

\* C8: get_dict returns exactly the stored items, the default entry
\* included, with no placeholder expanded.
C8_AsStated == td_op.name = "get_dict" => td_dict = td.map

----------------------------------------------------------------------------
(* JSONRepo *)

\* a file is [trans, rev, inc]: trans is the list of its rules in file
\* order, [k |-> key, v |-> value], rev its reverse-trans flag, inc its
\* trans-include list.  A value is [list, alts]: list tells a JSON list of
\* alternatives (alts) from a single str (alts holds just that str)

\* get_trans(n): n is None when the argument is left out
NoSelector == -1
Selector(n) == IF n = NoSelector THEN 0 ELSE n

\* JSONRepo._do_load_trans, on the loading state [tmp, memo, kind]; kind
\* other than "ok" is the exception that ended the load
RECURSIVE DoLoadTrans(_, _, _)
RECURSIVE DoIncludes(_, _, _, _, _)

DoIncludesMut(fs, st, name, incs, i) ==
    IF st.kind # "ok" \/ i > Len(incs) THEN st
    ELSE LET e == incs[i] IN
         IF e = name
         THEN DoIncludes(fs, [st EXCEPT !.warned = TRUE], name, incs, i + 1)
         ELSE IF \E j \in 1 .. Len(st.memo) : st.memo[j] = e
         THEN [st EXCEPT !.kind = "RecursionError"]
         ELSE DoIncludes(fs, DoLoadTrans(fs, st, e), name, incs, i + 1)

DoIncludes(fs, st, name, incs, i) ==
    IF st.kind # "ok" \/ i > Len(incs) THEN st
    ELSE LET e == incs[i] IN
         IF e = name
         THEN DoIncludes(fs, [st EXCEPT !.warned = TRUE], name, incs, i + 1)
         ELSE IF \E j \in 1 .. Len(st.memo) : st.memo[j] = e
         THEN DoIncludes(fs, [st EXCEPT !.warned = TRUE], name, incs, i + 1)
         ELSE DoIncludes(fs, DoLoadTrans(fs, st, e), name, incs, i + 1)

DoLoadTransMut(fs, st, name) ==
    IF name \notin DOMAIN fs THEN [st EXCEPT !.kind = "FileNotFoundError"]
    ELSE DoIncludes(fs,
                    [st EXCEPT !.tmp = Append(st.tmp, name),
                               !.memo = <<name>> \o st.memo],
                    name, fs[name].inc, 1)

DoLoadTrans(fs, st, name) ==
    IF name \notin DOMAIN fs THEN [st EXCEPT !.kind = "FileNotFoundError"]
    ELSE DoIncludes(fs,
                    [st EXCEPT !.tmp = <<name>> \o st.tmp,
                               !.memo = <<name>> \o st.memo],
                    name, fs[name].inc, 1)

\* JSONRepo._prep_trans with maketrans=False: one rule k: v goes into the
\* TranslationDict t
PrepTransMut(t, k, v, n, reverse_trans) ==
    LET v_out == v.alts[1] IN
    IF reverse_trans
    THEN IF k = <<>> THEN t ELSE TDSetItem(t, StrKey(v_out), k)
    ELSE TDSetItem(t, StrKey(k), v_out)

PrepTrans(t, k, v, n, reverse_trans) ==
    LET v_out == IF v.list
                 THEN IF n >= Len(v.alts) THEN v.alts[1] ELSE v.alts[n + 1]
                 ELSE v.alts[1]
    IN
    IF reverse_trans
    THEN IF k = <<>> THEN t
         ELSE IF v.list
         THEN LET RECURSIVE Items(_, _)
                  Items(tt, i) ==
                      IF i > Len(v.alts) THEN tt
                      ELSE Items(TDSetItem(tt, StrKey(v.alts[i]), k), i + 1)
              IN Items(t, 1)
         ELSE TDSetItem(t, StrKey(v_out), k)
    ELSE TDSetItem(t, StrKey(k), v_out)

\* what get_trans has built so far is [kind, td, dls]: td is first_dict,
\* dls the lookup objects appended after it (trans_dicts[1:]), each
\* [type, obj]; kind other than "ok" is the exception that ended the call
NewTransList == [kind |-> "ok", td |-> NewTD, dls |-> <<>>]

\* `it = n; if isinstance(v[0], list): if n > len(v): it = 0`
AltIndex(v, n) == IF v.list /\ n > Len(v.alts) THEN 0 ELSE n

\* JSONRepo._prep_trans_cpoff: the value is a [s, e, off] triple or a list
\* of them
PrepTransCpoffMut(g, k, v, n, reverse_trans) ==
    LET it == AltIndex(v, n) IN
    IF v.list /\ it >= Len(v.alts) THEN [g EXCEPT !.kind = "IndexError"]
    ELSE LET args == IF v.list THEN v.alts[it + 1] ELSE v.alts[1]
             start == IF reverse_trans THEN args[3] + args[1] ELSE args[1]
             end == IF reverse_trans THEN args[3] + args[2] ELSE args[2]
             offset == args[3]
         IN IF CPOLValidate(start, end, offset) # "ok"
            THEN [g EXCEPT !.kind = CPOLValidate(start, end, offset)]
            ELSE [g EXCEPT !.dls = Append(@,
                     [type |-> "cpoff",
                      obj |-> [made |-> TRUE, start |-> start, end |-> end,
                               offset |-> offset]])]

PrepTransCpoff(g, k, v, n, reverse_trans) ==
    LET it == AltIndex(v, n) IN
    IF v.list /\ it >= Len(v.alts) THEN [g EXCEPT !.kind = "IndexError"]
    ELSE LET args == IF v.list THEN v.alts[it + 1] ELSE v.alts[1]
             start == IF reverse_trans THEN args[3] + args[1] ELSE args[1]
             end == IF reverse_trans THEN args[3] + args[2] ELSE args[2]
             offset == IF reverse_trans THEN 0 - args[3] ELSE args[3]
         IN IF CPOLValidate(start, end, offset) # "ok"
            THEN [g EXCEPT !.kind = CPOLValidate(start, end, offset)]
            ELSE [g EXCEPT !.dls = Append(@,
                     [type |-> "cpoff",
                      obj |-> [made |-> TRUE, start |-> start, end |-> end,
                               offset |-> offset]])]

\* JSONRepo._prep_trans_regex: the value is a pair [re, repl] or a list of
\* pairs; under reversal the handler reads the name dmeta, which it never
\* binds
PrepTransRegex(g, k, v, n, reverse_trans) ==
    IF reverse_trans THEN [g EXCEPT !.kind = "NameError"]
    ELSE LET it == AltIndex(v, n) IN
         IF v.list /\ it >= Len(v.alts) THEN [g EXCEPT !.kind = "IndexError"]
         ELSE LET args == IF v.list THEN v.alts[it + 1] ELSE v.alts[1]
              IN [g EXCEPT !.dls = Append(@, [type |-> "regex", obj |-> args])]

\* JSONRepo._prep_trans_ril: the value is a pair [bounds, values] or a list
\* of pairs; reversal as in _prep_trans_regex
PrepTransRil(g, k, v, n, reverse_trans) ==
    IF reverse_trans THEN [g EXCEPT !.kind = "NameError"]
    ELSE LET it == AltIndex(v, n) IN
         IF v.list /\ it >= Len(v.alts) THEN [g EXCEPT !.kind = "IndexError"]
         ELSE LET args == IF v.list THEN v.alts[it + 1] ELSE v.alts[1]
                  bs == args.bounds
                  vs == args.values
              IN IF RILValidate(bs, FALSE, vs) # "ok"
                 THEN [g EXCEPT !.kind = RILValidate(bs, FALSE, vs)]
                 ELSE [g EXCEPT !.dls = Append(@,
                          [type |-> "ril",
                           obj |-> RILObject(bs, FALSE, vs, TRUE)])]

\* the handler get_trans picks for the key k, and its call
Handle(g, k, v, n, reverse_trans) ==
    IF k = <<>>
    THEN [g EXCEPT !.td = PrepTrans(g.td, k, v, n, reverse_trans)]
    ELSE CASE k[1] = CODE_OFFSET -> PrepTransCpoff(g, k, v, n, reverse_trans)
           [] k[1] = CODE_RANGE -> PrepTransRil(g, k, v, n, reverse_trans)
           [] k[1] = CODE_REGEX -> PrepTransRegex(g, k, v, n, reverse_trans)
           [] OTHER -> [g EXCEPT !.td = PrepTrans(g.td, k, v, n, reverse_trans)]

\* the loop of get_trans over the rules of one file, from rule i on
RECURSIVE PrepRules(_, _, _, _, _)
PrepRulesMut(g, rules, n, reverse_trans, i) ==
    IF g.kind # "ok" \/ i > Len(rules) THEN g
    ELSE PrepRules(Handle(g, rules[i].k, rules[i].v, n, FALSE),
                   rules, n, reverse_trans, i + 1)

PrepRules(g, rules, n, reverse_trans, i) ==
    IF g.kind # "ok" \/ i > Len(rules) THEN g
    ELSE PrepRules(Handle(g, rules[i].k, rules[i].v, n, reverse_trans),
                   rules, n, reverse_trans, i + 1)

\* the loop of get_trans over self._tmp, from file i on
RECURSIVE PrepFiles(_, _, _, _, _)
PrepFiles(g, fs, loaded, n, i) ==
    IF g.kind # "ok" \/ i > Len(loaded) THEN g
    ELSE PrepFiles(PrepRules(g, fs[loaded[i]].trans, n, fs[loaded[i]].rev, 1),
                   fs, loaded, n, i + 1)

\* JSONRepo.get_trans(n) with a database loaded: the list it builds
GetTransOf(fs, loaded, n) ==
    PrepFiles(NewTransList, fs, loaded, Selector(n), 1)

(* Operations *)

\* repo.load_db(name)
LoadDb(name) ==
    LET st == DoLoadTrans(files,
                          [tmp |-> <<>>, memo |-> <<>>, kind |-> "ok",
                           warned |-> FALSE],
                          name)
    IN /\ tmp' = st.tmp
       /\ memo' = st.memo
       /\ current_db_name' = IF st.kind = "ok" THEN name ELSE NoDB
       /\ repo_op' = [name |-> "load_db", db |-> name, n |-> 0]
       /\ repo_res' = IF st.kind = "ok" THEN Ok(<<>>) ELSE Raise(st.kind)
       /\ gt' = NoTrans
       /\ UNCHANGED <<files, cpVars, rilVars, tdVars, tpVars, instVars>>

\* repo.get_trans(n)
GetTrans(n) ==
    /\ repo_op' = [name |-> "get_trans", db |-> current_db_name, n |-> n]
    /\ LET g == GetTransOf(files, tmp, n) IN
       IF current_db_name = NoDB THEN repo_res' = Ok(<<>>) /\ gt' = NoTrans
       ELSE IF g.kind # "ok" THEN repo_res' = Raise(g.kind) /\ gt' = NoTrans
       ELSE /\ repo_res' = Ok(<<>>)
            /\ gt' = [none |-> FALSE, td |-> g.td, dls |-> g.dls]
    /\ UNCHANGED <<files, tmp, memo, current_db_name, cpVars, rilVars,
                   tdVars, tpVars, instVars>>

(* Inputs *)

Names == {"A", "B", "C"}
Missing == "Z"
Code(f) == CASE f = "A" -> 65 [] f = "B" -> 66 [] OTHER -> 67

KeyX == <<120>>
KeyY == <<121>>

\* the rules a file f may hold, in the order it holds them: 'x' with a
\* single value, 'y' with two alternatives, and the default entry '' with
\* three
Single(str) == [list |-> FALSE, alts |-> <<str>>]
Alts(strs) == [list |-> TRUE, alts |-> strs]
RuleX(f) == [k |-> KeyX, v |-> Single(chr(Code(f)))]
RuleY(f) == [k |-> KeyY, v |-> Alts(<<<<Code(f), 121>>, KeyX>>)]
RuleD(f) == [k |-> <<>>,
             v |-> Alts(<<<<SUBPOINT, Code(f)>>, chr(Code(f) + 32),
                          <<Code(f) + 32, SUBPOINT>>>>)]
Rules(f, has) ==
    (IF "x" \in has THEN <<RuleX(f)>> ELSE <<>>)
        \o (IF "y" \in has THEN <<RuleY(f)>> ELSE <<>>)
        \o (IF "d" \in has THEN <<RuleD(f)>> ELSE <<>>)

\* trans-include lists: up to MaxInc distinct names
IncLists ==
    {l \in UNION {[1 .. m -> Names] : m \in 0 .. MaxInc} :
        \A i, j \in 1 .. Len(l) : i # j => l[i] # l[j]}

\* every inclusion graph over the three files; each file holds the default
\* entry, and 'x' or not
GraphFiles ==
    {[f \in Names |->
         [trans |-> Rules(f, IF f \in D THEN {"x", "d"} ELSE {"d"}),
          rev |-> FALSE, inc |-> g[f]]] :
        g \in [Names -> IncLists], D \in SUBSET Names}

\* the chain C includes B includes A; each file holds any of the rules,
\* forward or reversed
ChainInc == [f \in Names |->
                CASE f = "C" -> <<"B">> [] f = "B" -> <<"A">> [] OTHER -> <<>>]
ChainFiles ==
    {[f \in Names |->
         [trans |-> Rules(f, has[f]), rev |-> r[f], inc |-> ChainInc[f]]] :
        has \in [Names -> SUBSET {"x", "y", "d"}], r \in [Names -> BOOLEAN]}

RepoInit ==
    /\ CPIdle /\ InstIdle /\ RILIdle /\ TDIdle /\ TPIdle
    /\ files \in GraphFiles \cup ChainFiles
    /\ FreshRepo

RepoNext ==
    \/ \E name \in Names \cup {Missing} : LoadDb(name)
    \/ \E n \in {NoSelector} \cup (0 .. MaxN) : GetTrans(n)

SpecRepo == RepoInit /\ [][RepoNext]_vars

(* Claims about JSONRepo *)

\* the character map the rules of file f alone build
Own(f, n) ==
    PrepRules(NewTransList, files[f].trans, n, files[f].rev, 1).td.map

IsChain(a, b, c) ==
    /\ a # b /\ b # c /\ a # c
    /\ files[c].inc = <<b>> /\ files[b].inc = <<a>> /\ files[a].inc = <<>>

\* C9: after loading c, which includes b, which includes a, the character
\* map of get_trans holds, for every key (the default entry '' included),
\* c's value when c defines the key, else b's value when b defines it, else
\* a's value; it holds no other key.
C9_ChainPrecedence ==
    \A a \in Names, b \in Names, c \in Names :
        (/\ IsChain(a, b, c)
         /\ repo_op.name = "get_trans" /\ current_db_name = c)
        => LET n == Selector(repo_op.n)
               m == gt.td.map
           IN /\ ~gt.none
              /\ DOMAIN m = DOMAIN Own(a, n) \cup DOMAIN Own(b, n)
                                \cup DOMAIN Own(c, n)
              /\ \A k \in DOMAIN m :
                     m[k] = IF k \in DOMAIN Own(c, n) THEN Own(c, n)[k]
                            ELSE IF k \in DOMAIN Own(b, n) THEN Own(b, n)[k]
                            ELSE Own(a, n)[k]
              /\ gt.td.out_default =
                     IF DefaultKey \in DOMAIN m THEN m[DefaultKey]
                     ELSE <<SUBPOINT>>

\* the chain C, B, A is loaded, none reversed: 'x' and '' are in A and C and
\* come from C, 'y' is in A and B and comes from B
C9_Witness ==
    /\ IsChain("A", "B", "C")
    /\ repo_op.name = "get_trans" /\ current_db_name = "C" /\ repo_op.n = 0
    /\ \A f \in Names : ~files[f].rev
    /\ files["A"].trans = Rules("A", {"x", "y", "d"})
    /\ files["B"].trans = Rules("B", {"y"})
    /\ files["C"].trans = Rules("C", {"x", "d"})
    /\ gt.td.map[IntKey(120)] = <<67>>
    /\ gt.td.map[IntKey(121)] = <<66, 121>>
    /\ gt.td.map[DefaultKey] = <<SUBPOINT, 67>>

\* f includes g directly
Includes(f, g) == \E i \in 1 .. Len(files[f].inc) : files[f].inc[i] = g

\* no file includes itself, directly or through others
Acyclic ==
    LET RECURSIVE Reach(_, _, _)
        Reach(f, g, d) ==
            \/ Includes(f, g)
            \/ d > 0 /\ \E h \in Names : Includes(f, h) /\ Reach(h, g, d - 1)
    IN \A f \in Names : ~Reach(f, f, Cardinality(Names))

\* the 1-based place of f in the loaded sequence
Place(f) == CHOOSE i \in 1 .. Len(tmp) : tmp[i] = f
IsLoaded(f) == \E i \in 1 .. Len(tmp) : tmp[i] = f

\* C10: after load_db, every loaded file X comes after every loaded file Y
\* that X lists in its trans-include, and so a key that only X and Y define
\* has X's value in the character map of get_trans.  (Stated for inclusion
\* graphs without cycles.)
C10_AsStated ==
    (Acyclic /\ current_db_name # NoDB) =>
        \A X \in Names, Y \in Names :
            (IsLoaded(X) /\ IsLoaded(Y) /\ Includes(X, Y)) =>
                /\ Place(X) > Place(Y)
                /\ (/\ repo_op.name = "get_trans"
                    /\ \A f \in Names :
                           (IsLoaded(f) /\ IntKey(120) \in DOMAIN Own(f, 0))
                               <=> f \in {X, Y})
                   => gt.td.map[IntKey(120)] =
                          Own(X, Selector(repo_op.n))[IntKey(120)]

\* the files load_db(f) has to read: f and what it includes, directly or
\* through others
RECURSIVE Closure(_, _)
Closure(S, d) ==
    IF d = 0 THEN S
    ELSE Closure(S \cup {g \in Names : \E f \in S : Includes(f, g)}, d - 1)
ReadSet(f) == Closure({f}, Cardinality(Names))

\* some file that load_db(f) reads lists itself or a file read before it
HasLoop(f) ==
    \E g \in ReadSet(f), h \in ReadSet(f) :
        /\ Includes(g, h)
        /\ h = g \/ g \in Closure({h}, Cardinality(Names))

\* C22: load_db ends on every inclusion graph, self-inclusions and loops
\* included: it does not raise, each file it has to read is loaded exactly
\* once, the requested file is the last of the loaded sequence, and a
\* self-inclusion or loop is answered with a warning.
C22_LoadTerminates ==
    (repo_op.name = "load_db" /\ repo_op.db \in Names) =>
        /\ repo_res.kind = "ok"
        /\ current_db_name = repo_op.db
        /\ {tmp[i] : i \in 1 .. Len(tmp)} = ReadSet(repo_op.db)
        /\ \A i, j \in 1 .. Len(tmp) : i # j => tmp[i] # tmp[j]
        /\ tmp[Len(tmp)] = repo_op.db
        /\ HasLoop(repo_op.db) =>
               DoLoadTrans(files,
                           [tmp |-> <<>>, memo |-> <<>>, kind |-> "ok",
                            warned |-> FALSE],
                           repo_op.db).warned

\* A includes itself and B, B includes C, C includes A: load_db('A') loads
\* C, B, A
C22_Witness ==
    /\ repo_op.name = "load_db" /\ repo_op.db = "A"
    /\ files["A"].inc = <<"A", "B">>
    /\ files["B"].inc = <<"C">>
    /\ files["C"].inc = <<"A">>
    /\ repo_res.kind = "ok"
    /\ tmp = <<"C", "B", "A">>

\* the key under which the character pass looks a str up: its code point
\* when it is one character long
CharKey(str) == IF Len(str) = 1 THEN IntKey(ord(str)) ELSE StrKey(str)

\* get_trans was the last call, on the single loaded file f
SingleLoad(f) ==
    repo_op.name = "get_trans" /\ current_db_name = f /\ tmp = <<f>>

----------------------------------------------------------------------------
(* JSONRepo: one file with character, offset, regex and range rules *)

KeyO == <<CODE_OFFSET, 111>>
KeyR == <<CODE_REGEX, 114>>
KeyG == <<CODE_RANGE, 103>>

\* the alternatives of the offset, regex and range entries; a regex is a
\* pair [re, repl] whose pattern is one literal character
OffAlts == <<<<65, 66, 1>>, <<65, 66, 2>>>>
RegexAlts == <<[re |-> <<97>>, repl |-> <<49>>],
               [re |-> <<97>>, repl |-> <<50, 50>>]>>
RangeAlts == <<[bounds |-> <<65, 66>>, values |-> <<<<120>>>>],
               [bounds |-> <<65, 66, 70, 71>>,
                values |-> <<<<121>>, <<SUBPOINT, 33>>>>]>>

\* an entry written in one of three forms: "single" is the first
\* alternative alone (no list), "one" a list of the first alternative,
\* "two" a list of both
Entry(alts, form) ==
    CASE form = "single" -> Single(alts[1])
      [] form = "one" -> Alts(<<alts[1]>>)
      [] OTHER -> Alts(alts)
Forms == {"single", "one", "two"}

BundleRules(has, form) ==
    (IF "x" \in has THEN <<RuleX("A")>> ELSE <<>>)
        \o (IF "o" \in has
            THEN <<[k |-> KeyO, v |-> Entry(OffAlts, form)]>> ELSE <<>>)
        \o (IF "r" \in has
            THEN <<[k |-> KeyR, v |-> Entry(RegexAlts, form)]>> ELSE <<>>)
        \o (IF "g" \in has
            THEN <<[k |-> KeyG, v |-> Entry(RangeAlts, form)]>> ELSE <<>>)
        \o (IF "d" \in has THEN <<RuleD("A")>> ELSE <<>>)

\* a directory with the one file A
OneFile(trans, r) ==
    [f \in {"A"} |-> [trans |-> trans, rev |-> r, inc |-> <<>>]]

\* file A holds any of the entries, in any form, or just one offset entry
\* [s, e, off]; it is forward or reversed
BundleInit ==
    /\ CPIdle /\ InstIdle /\ RILIdle /\ TDIdle /\ TPIdle
    /\ \/ \E has \in SUBSET {"x", "o", "r", "g", "d"}, form \in Forms,
             r \in BOOLEAN :
              files = OneFile(BundleRules(has, form), r)
       \/ \E a \in CPArgs, b \in CPArgs, c \in CPOffsets, r \in BOOLEAN :
              files = OneFile(<<[k |-> KeyO, v |-> Single(<<a, b, c>>)]>>, r)
    /\ FreshRepo

SpecBundle == BundleInit /\ [][RepoNext]_vars

\* the lookup object get_trans appends for the alternative a of an entry
\* with key k
Built(k, a) ==
    CASE k[1] = CODE_OFFSET ->
             [type |-> "cpoff",
              obj |-> [made |-> TRUE, start |-> a[1], end |-> a[2],
                       offset |-> a[3]]]
      [] k[1] = CODE_REGEX -> [type |-> "regex", obj |-> a]
      [] OTHER -> [type |-> "ril",
                   obj |-> RILObject(a.bounds, FALSE, a.values, TRUE)]

IsCoded(k) == k # <<>> /\ k[1] \in {CODE_OFFSET, CODE_REGEX, CODE_RANGE}

\* C17: get_trans(n) on a forward file never raises because of n, and for
\* every offset, range or regex entry that is a list of m alternatives the
\* lookup object of alternative n (0 <= n < m), or of alternative 0
\* (n >= m), is among the objects it returns.
C17_AsStated ==
    (SingleLoad("A") /\ ~files["A"].rev) =>
        LET n == Selector(repo_op.n)
            rules == files["A"].trans
        IN \A i \in 1 .. Len(rules) :
               (IsCoded(rules[i].k) /\ rules[i].v.list) =>
                   LET alts == rules[i].v.alts
                       a == IF n < Len(alts) THEN alts[n + 1] ELSE alts[1]
                   IN /\ repo_res.kind = "ok"
                      /\ ~gt.none
                      /\ \E j \in 1 .. Len(gt.dls) :
                             /\ gt.dls[j].type = Built(rules[i].k, a).type
                             /\ gt.dls[j].obj = Built(rules[i].k, a).obj

\* C19: get_trans on a reversed file with a range or regex entry returns
\* without raising; the range or regex entry is left out, the character
\* rules are reversed and the offset entry is built.
C19_AsStated ==
    (/\ SingleLoad("A") /\ files["A"].rev /\ repo_op.n = NoSelector
     /\ \E i \in 1 .. Len(files["A"].trans) :
            /\ files["A"].trans[i].k # <<>>
            /\ files["A"].trans[i].k[1] \in {CODE_REGEX, CODE_RANGE})
    => /\ repo_res.kind = "ok"
       /\ ~gt.none
       /\ \A j \in 1 .. Len(gt.dls) : gt.dls[j].type = "cpoff"
       /\ \A i \in 1 .. Len(files["A"].trans) :
              LET k == files["A"].trans[i].k IN
              /\ k = KeyX => TDGetItem(gt.td, IntKey(65)) = KeyX
              /\ k = KeyO => Len(gt.dls) = 1

\* file A holds just one offset entry [s, e, off] that the forward build
\* accepts, and get_trans was the last call on it
OneOffset ==
    /\ SingleLoad("A")
    /\ Len(files["A"].trans) = 1
    /\ files["A"].trans[1].k = KeyO
    /\ ~files["A"].trans[1].v.list
    /\ LET a == files["A"].trans[1].v.alts[1]
       IN CPOLValidate(a[1], a[2], a[3]) = "ok"

\* the forward lookup of that entry
Forward ==
    PrepTransCpoff(NewTransList, KeyO, files["A"].trans[1].v, 0, FALSE)
        .dls[1].obj

\* the keys the lookups are tried with
RoundTripKeys(s, e) == {k \in CPInts : s <= k /\ k <= e}
DomainKeys(s, e, off) ==
    CPKeys \cup {s + off - 1, s + off, e + off, e + off + 1}

\* C20 as stated: the reverse lookup built from [s, e, off] answers exactly
\* the keys s+off..e+off, and for every k in s..e it maps the code point of
\* forward[k] back to chr(k).
C20_AsStated ==
    (OneOffset /\ files["A"].rev) =>
        LET a == files["A"].trans[1].v.alts[1]
            s == a[1]
            e == a[2]
            off == a[3]
        IN /\ repo_res.kind = "ok" /\ ~gt.none /\ Len(gt.dls) = 1
           /\ \A key \in DomainKeys(s, e, off) :
                  (CPOLGetItem(gt.dls[1].obj, key).kind = "ok")
                      <=> (s + off <= key /\ key <= e + off)
           /\ \A k \in RoundTripKeys(s, e) :
                  /\ CPOLGetItem(Forward, k).kind = "ok"
                  /\ CPOLGetItem(gt.dls[1].obj,
                                 ord(CPOLGetItem(Forward, k).val)) = Ok(chr(k))

\* C20: the reverse lookup built from [s, e, off] answers exactly the keys
\* s+off..e+off, and for every k in s..e with k+off <= 0x10FFFF it maps the
\* code point of forward[k] back to chr(k); for k+off > 0x10FFFF forward[k]
\* raises LookupError.
C20_RoundTrip ==
    (OneOffset /\ files["A"].rev) =>
        LET a == files["A"].trans[1].v.alts[1]
            s == a[1]
            e == a[2]
            off == a[3]
        IN /\ repo_res.kind = "ok" /\ ~gt.none /\ Len(gt.dls) = 1
           /\ \A key \in DomainKeys(s, e, off) :
                  (CPOLGetItem(gt.dls[1].obj, key).kind = "ok")
                      <=> (s + off <= key /\ key <= e + off)
           /\ \A k \in RoundTripKeys(s, e) :
                  IF k + off <= MaxCodePoint
                  THEN /\ CPOLGetItem(Forward, k).kind = "ok"
                       /\ CPOLGetItem(gt.dls[1].obj,
                                      ord(CPOLGetItem(Forward, k).val))
                              = Ok(chr(k))
                  ELSE CPOLGetItem(Forward, k) = Raise("LookupError")

\* the reversed entry [0x10FFFD, 0x10FFFE, 1] was built: the reverse lookup
\* spans 0x10FFFE..0x10FFFF with offset -1
C20_Witness ==
    /\ OneOffset /\ files["A"].rev
    /\ files["A"].trans[1].v.alts[1] =
           <<MaxCodePoint - 2, MaxCodePoint - 1, 1>>
    /\ Len(gt.dls) = 1
    /\ gt.dls[1].obj.start = MaxCodePoint - 1
    /\ gt.dls[1].obj.end = MaxCodePoint
    /\ gt.dls[1].obj.offset = -1

----------------------------------------------------------------------------
(* TextProcessor *)

\* a bound repository is [name, files, tmp, memo, cur]: its directory, the
\* files of that directory and the JSONRepo's _tmp, _filename_memo and
\* current_db_name.  A file of such a repository also has rout, its
\* reverse-out flag, and tag, a metadata item that tells the files apart.
\* trans_dicts and meta are Python dicts, kept as lists of [k, v] in
\* insertion order; a key is [repo, db, n], for "repo:db.n"

DictHas(d, k) == \E i \in 1 .. Len(d) : d[i].k = k
DictGet(d, k) == d[CHOOSE i \in 1 .. Len(d) : d[i].k = k].v
DictSet(d, k, v) ==
    IF DictHas(d, k)
    THEN [i \in 1 .. Len(d) |-> IF d[i].k = k THEN [k |-> k, v |-> v] ELSE d[i]]
    ELSE Append(d, [k |-> k, v |-> v])

\* repo.load_db(name) on a bound repository: [kind, repo]
RepoLoad(r, name) ==
    LET st == DoLoadTrans(r.files,
                          [tmp |-> <<>>, memo |-> <<>>, kind |-> "ok",
                           warned |-> FALSE],
                          name)
    IN [kind |-> st.kind,
        repo |-> [r EXCEPT !.tmp = st.tmp, !.memo = st.memo,
                           !.cur = IF st.kind = "ok" THEN name ELSE NoDB]]

\* CodePointOffsetLookup.dict(), from key i on: acc is [kind, map, rest]
RECURSIVE CpoffDict(_, _, _)
CpoffDict(obj, i, acc) ==
    IF acc.kind # "ok" \/ i > obj.end THEN acc
    ELSE LET r == CPOLGetItem(obj, i) IN
         IF r.kind # "ok" THEN [acc EXCEPT !.kind = r.kind]
         ELSE CpoffDict(obj, i + 1,
                        [acc EXCEPT !.map = Put(@, IntKey(i), r.val)])

\* RangeIndexedList.dict(), from key kn of the i-th range on
RECURSIVE RilDict(_, _, _, _)
RilDict(obj, i, kn, acc) ==
    IF acc.kind # "ok" \/ 2 * i > Len(obj.bounds) THEN acc
    ELSE IF kn > obj.bounds[2 * i]
    THEN IF 2 * (i + 1) > Len(obj.bounds) THEN acc
         ELSE RilDict(obj, i + 1, obj.bounds[2 * i + 1], acc)
    ELSE LET r == RILGetItem(obj, kn) IN
         IF r.kind # "ok" THEN [acc EXCEPT !.kind = r.kind]
         ELSE RilDict(obj, i, kn + 1,
                      [acc EXCEPT !.map = Put(@, IntKey(kn), r.val)])

\* the loop of _prep_one_dict over trans_list[1:], from element j on
RECURSIVE OneDictLoop(_, _, _)
OneDictLoopMut(acc, dls, j) ==
    IF acc.kind # "ok" \/ j > Len(dls) THEN acc
    ELSE OneDictLoop(
             CASE dls[j].type = "ril" ->
                      RilDict(dls[j].obj, 1, dls[j].obj.bounds[1], acc)
               [] OTHER -> [acc EXCEPT !.rest = Append(@, dls[j].obj)],
             dls, j + 1)

OneDictLoop(acc, dls, j) ==
    IF acc.kind # "ok" \/ j > Len(dls) THEN acc
    ELSE OneDictLoop(
             CASE dls[j].type = "cpoff" ->
                      CpoffDict(dls[j].obj, dls[j].obj.start, acc)
               [] dls[j].type = "ril" ->
                      RilDict(dls[j].obj, 1, dls[j].obj.bounds[1], acc)
               [] OTHER -> [acc EXCEPT !.rest = Append(@, dls[j].obj)],
             dls, j + 1)

\* get_trans._prep_one_dict: [kind, none, tdict, rest]; tdict is out[0], a
\* TranslationDict (istd) when it has a '' key and a plain dict otherwise,
\* rest is out[1:]
PrepOneDict(g) ==
    LET acc == OneDictLoop([kind |-> "ok", map |-> TDGetDictOf(g.td),
                            rest |-> <<>>], g.dls, 1)
        from_dict == [map |-> acc.map, out_default |-> acc.map[DefaultKey]]
        out0 == TDSetItem(from_dict, DefaultKey, g.td.out_default)
    IN [kind |-> acc.kind, none |-> FALSE,
        tdict |-> IF DefaultKey \in DOMAIN acc.map
                  THEN [istd |-> TRUE, map |-> out0.map,
                        out_default |-> out0.out_default]
                  ELSE [istd |-> FALSE, map |-> acc.map,
                        out_default |-> <<SUBPOINT>>],
        rest |-> acc.rest]

NoneTrans ==
    [kind |-> "ok", none |-> TRUE,
     tdict |-> [istd |-> FALSE, map |-> EmptyDict, out_default |-> <<SUBPOINT>>],
     rest |-> <<>>]

\* repo.get_trans(n=n, one_dict=True) on a bound repository
RepoGetTrans(r, n) ==
    IF r.cur = NoDB THEN NoneTrans
    ELSE LET g == GetTransOf(r.files, r.tmp, n) IN
         IF g.kind # "ok" THEN [NoneTrans EXCEPT !.kind = g.kind]
         ELSE PrepOneDict(g)

\* repo.get_meta(): the meta of the last loaded file
RepoGetMeta(r) ==
    LET f == r.files[r.tmp[Len(r.tmp)]]
    IN [rout |-> f.rout, tag |-> f.tag]

\* the loop of add_trans_dict over the repositories, from repository i on:
\* st is [repos, repo, repo_name]; repo and repo_name are places in repos,
\* 0 for None
RECURSIVE FindLoop(_, _, _)
FindLoop(st, trans_name, i) ==
    IF i > Len(st.repos) THEN st
    ELSE LET r == RepoLoad(st.repos[i], trans_name) IN
         FindLoop([repos |-> [st.repos EXCEPT ![i] = r.repo],
                   repo |-> i,
                   repo_name |-> IF r.kind = "ok" THEN i ELSE st.repo_name],
                  trans_name, i + 1)

\* the fully-qualified branch of add_trans_dict: [kind, repos, repo,
\* repo_name]
FindQualified(rs, alrepo, tname) ==
    IF \E i \in 1 .. Len(rs) : rs[i].name = alrepo
    THEN LET i == CHOOSE j \in 1 .. Len(rs) : rs[j].name = alrepo
             r == RepoLoad(rs[i], tname)
         IN [kind |-> r.kind, repos |-> [rs EXCEPT ![i] = r.repo],
             repo |-> i, repo_name |-> i]
    ELSE [kind |-> "ok", repos |-> rs, repo |-> 0, repo_name |-> 0]

\* what str.translate(tdict) gets from tdict[ord(c)]
TableLookup(tdict, c) ==
    IF tdict.istd THEN Ok(TDGetItem(tdict, IntKey(c)))
    ELSE IF IntKey(c) \in DOMAIN tdict.map THEN Ok(tdict.map[IntKey(c)])
    ELSE Raise("LookupError")

\* out.translate(tdict), from character i on: a LookupError keeps the
\* character, None deletes it
RECURSIVE StrTranslate(_, _, _)
StrTranslateMut(out, tdict, i) ==
    IF i > Len(out) THEN <<>>
    ELSE LET r == TableLookup(tdict, out[i]) IN
         (IF r.kind # "ok" \/ r.val = NoneVal THEN <<>> ELSE r.val)
             \o StrTranslate(out, tdict, i + 1)

StrTranslate(out, tdict, i) ==
    IF i > Len(out) THEN <<>>
    ELSE LET r == TableLookup(tdict, out[i]) IN
         (IF r.kind # "ok" THEN <<out[i]>>
          ELSE IF r.val = NoneVal THEN <<>>
          ELSE r.val) \o StrTranslate(out, tdict, i + 1)

\* the reverse-out loop, from character i on: tdict.get(ord(c), c) is the
\* get of the built-in dict
RECURSIVE ReverseOut(_, _, _, _)
ReverseOut(out, tdict, i, tmp_rev) ==
    IF i > Len(out) THEN tmp_rev
    ELSE ReverseOut(out, tdict, i + 1,
                    (IF IntKey(out[i]) \in DOMAIN tdict.map
                     THEN tdict.map[IntKey(out[i])]
                     ELSE <<out[i]>>) \o tmp_rev)

\* (p[0]).sub(p[1], out) for a pattern of one literal character, from
\* character i on
RECURSIVE RegexSub(_, _, _)
RegexSub(p, out, i) ==
    IF i > Len(out) THEN <<>>
    ELSE (IF out[i] = p.re[1] THEN p.repl ELSE <<out[i]>>)
             \o RegexSub(p, out, i + 1)

\* the regex loop of translate over tdata[1:], from element j on
RECURSIVE RegexLoop(_, _, _)
RegexLoop(rest, out, j) ==
    IF j > Len(rest) THEN out
    ELSE RegexLoop(rest, RegexSub(rest[j], out, 1), j + 1)

\* the lookup part of the loop body of translate
CharPass(tdata, m, out) ==
    IF m.rout
    THEN IF out = <<>> THEN out ELSE ReverseOut(out, tdata.tdict, 1, <<>>)
    ELSE StrTranslate(out, tdata.tdict, 1)

\* the loop of translate over olist, from element i on
RECURSIVE TranslateLoopMut(_, _, _, _, _)
RECURSIVE TranslateLoop(_, _, _, _, _)
TranslateLoopMut(dicts, ms, olist, out, i) ==
    IF i > Len(olist) THEN Ok(out)
    ELSE IF ~DictHas(dicts, olist[i]) THEN Raise("KeyError")
    ELSE IF DictGet(dicts, olist[i]).none THEN Raise("TypeError")
    ELSE IF ~DictHas(ms, olist[i]) THEN Raise("KeyError")
    ELSE LET tdata == DictGet(dicts, olist[i])
             looked == CharPass(tdata, DictGet(ms, olist[i]), out)
         IN TranslateLoopMut(dicts, ms, olist,
                             RegexLoop(tdata.rest, looked, 1), i + 1)

TranslateLoop(dicts, ms, olist, out, i) ==
    IF i > Len(olist) THEN Ok(out)
    ELSE IF ~DictHas(dicts, olist[i]) THEN Raise("KeyError")
    ELSE IF DictGet(dicts, olist[i]).none THEN Raise("TypeError")
    ELSE IF ~DictHas(ms, olist[i]) THEN Raise("KeyError")
    ELSE LET tdata == DictGet(dicts, olist[i])
             pre == RegexLoop(tdata.rest, out, 1)
         IN TranslateLoop(dicts, ms, olist,
                          CharPass(tdata, DictGet(ms, olist[i]), pre), i + 1)

(* Operations *)

\* tp.add_trans_dict(trans_name, n); trans_name is "repo:db" (fq) or "db"
AddTransDict(fq, alrepo, tname, n) ==
    LET found == IF fq THEN FindQualified(repos, alrepo, tname)
                 ELSE [kind |-> "ok"] @@
                      FindLoop([repos |-> repos, repo |-> 0, repo_name |-> 0],
                               tname, 1)
        k == [repo |-> found.repos[found.repo_name].name, db |-> tname,
              n |-> n]
        repo == found.repos[found.repo]
        got == RepoGetTrans(repo, n)
    IN /\ tp_op' = [name |-> "add_trans_dict", fq |-> fq, repo |-> alrepo,
                    db |-> tname, n |-> n, s |-> <<>>]
       /\ repos' = found.repos
       /\ UNCHANGED <<trans_ops_list, cpVars, rilVars, tdVars, repoVars,
                   instVars>>
       /\ IF found.kind # "ok"
          THEN tp_res' = Raise(found.kind) /\ UNCHANGED <<trans_dicts, meta>>
          ELSE IF found.repo_name = 0
          THEN tp_res' = Raise("KeyError") /\ UNCHANGED <<trans_dicts, meta>>
          ELSE IF got.kind # "ok"
          THEN tp_res' = Raise(got.kind) /\ UNCHANGED <<trans_dicts, meta>>
          ELSE /\ trans_dicts' =
                      DictSet(trans_dicts, k,
                              [none |-> got.none, tdict |-> got.tdict,
                               rest |-> got.rest])
               /\ IF repo.tmp = <<>>
                  THEN tp_res' = Raise("IndexError") /\ UNCHANGED meta
                  ELSE /\ tp_res' = Ok(<<>>)
                       /\ meta' = DictSet(meta, k, RepoGetMeta(repo))

\* tp.add_trans_ops(k) with the name k of a bundle
AddTransOps(k) ==
    /\ Len(trans_ops_list) < MaxOps
    /\ tp_op' = [name |-> "add_trans_ops", fq |-> TRUE, repo |-> k.repo,
                 db |-> k.db, n |-> k.n, s |-> <<>>]
    /\ tp_res' = Ok(<<>>)
    /\ trans_ops_list' =
           IF DictHas(trans_dicts, k)
           THEN ListInsert(trans_ops_list, Len(trans_ops_list), k)
           ELSE trans_ops_list
    /\ UNCHANGED <<repos, trans_dicts, meta, cpVars, rilVars, tdVars,
                   repoVars, instVars>>

\* tp.translate(s)
Translate(s) ==
    /\ tp_op' = [name |-> "translate", fq |-> FALSE, repo |-> "", db |-> "",
                 n |-> 0, s |-> s]
    /\ tp_res' = TranslateLoop(trans_dicts, meta, trans_ops_list, s, 1)
    /\ UNCHANGED <<repos, trans_dicts, meta, trans_ops_list, cpVars, rilVars,
                   tdVars, repoVars, instVars>>

(* Inputs *)

RepoNames == {"R1", "R2"}
NoRepo == "R9"
DbNames == {"A", "B"}
TPKeys == {[repo |-> r, db |-> d, n |-> 0] : r \in RepoNames, d \in DbNames}

\* the strings translate is called with: up to MaxStr of 'a', 'b', 'A'
Strings == UNION {[1 .. m -> {97, 98, 65}] : m \in 0 .. MaxStr}

BoundRepo(name, fs) ==
    [name |-> name, files |-> fs, tmp |-> <<>>, memo |-> <<>>, cur |-> NoDB]

TPFile(trans, rout, tag) ==
    [trans |-> trans, rev |-> FALSE, inc |-> <<>>, rout |-> rout, tag |-> tag]

\* the rules of bundle A of the translating processor: 'a' -> '4' and
\* 'b' -> '<' + placeholder (c), the offset entry [65, 66, 1] (o), the
\* regex pairs 'a' -> 'b' and 'b' -> 'aA' in that order (r), and the default
\* entry placeholder + '!' (d)
KeyR1 == <<CODE_REGEX, 49>>
KeyR2 == <<CODE_REGEX, 50>>
RulesA(has) ==
    (IF "c" \in has
     THEN <<[k |-> <<97>>, v |-> Single(<<52>>)],
            [k |-> <<98>>, v |-> Single(<<60, SUBPOINT>>)]>>
     ELSE <<>>)
        \o (IF "o" \in has
            THEN <<[k |-> KeyO, v |-> Single(<<65, 66, 1>>)]>> ELSE <<>>)
        \o (IF "r" \in has
            THEN <<[k |-> KeyR1,
                    v |-> Single([re |-> <<97>>, repl |-> <<98>>])],
                   [k |-> KeyR2,
                    v |-> Single([re |-> <<98>>, repl |-> <<97, 65>>])]>>
            ELSE <<>>)
        \o (IF "d" \in has
            THEN <<[k |-> <<>>, v |-> Single(<<SUBPOINT, 33>>)]>> ELSE <<>>)

\* bundle B: 'A' -> 'a' and the regex pair 'b' -> 'a'
RulesB ==
    <<[k |-> <<65>>, v |-> Single(<<97>>)],
      [k |-> KeyR1, v |-> Single([re |-> <<98>>, repl |-> <<97>>])]>>

\* a processor bound to the one repository R1, which holds A and B
TPInit ==
    /\ CPIdle /\ InstIdle /\ RILIdle /\ TDIdle /\ RepoIdle
    /\ \E has \in SUBSET {"c", "o", "r", "d"}, rout \in BOOLEAN :
           repos = <<BoundRepo("R1",
                        [f \in DbNames |->
                            IF f = "A" THEN TPFile(RulesA(has), rout, 1)
                            ELSE TPFile(RulesB, FALSE, 2)])>>
    /\ FreshTP

\* a processor bound to R1 and R2, in that order: each holds the bundle K,
\* and the bundle A or not; the files are tagged with their repository
LoadFiles(with_a, tag) ==
    [f \in (IF with_a THEN {"A", "K"} ELSE {"K"}) |->
        TPFile(<<[k |-> <<97>>, v |-> Single(chr(48 + tag))]>>, FALSE, tag)]

TPLoadInit ==
    /\ CPIdle /\ InstIdle /\ RILIdle /\ TDIdle /\ RepoIdle
    /\ \E a1 \in BOOLEAN, a2 \in BOOLEAN :
           repos = <<BoundRepo("R1", LoadFiles(a1, 1)),
                     BoundRepo("R2", LoadFiles(a2, 2))>>
    /\ FreshTP

TPLoadNext ==
    \/ \E tname \in DbNames \cup {Missing} : AddTransDict(FALSE, "", tname, 0)
    \/ \E alrepo \in RepoNames \cup {NoRepo}, tname \in DbNames \cup {Missing} :
           AddTransDict(TRUE, alrepo, tname, 0)
    \/ \E k \in TPKeys : AddTransOps(k)

TPNext ==
    \/ TPLoadNext
    \/ \E s \in Strings : Translate(s)

SpecTP == TPInit /\ [][TPNext]_vars
SpecTPLoad == TPLoadInit /\ [][TPLoadNext]_vars

(* Claims about TextProcessor *)

\* the rules of the file behind the bundle key k
RepoOf(name) == repos[CHOOSE i \in 1 .. Len(repos) : repos[i].name = name]
RulesOf(k) == RepoOf(k.repo).files[k.db].trans

\* the bundle k went through add_trans_dict without an error
IsReady(k) ==
    /\ DictHas(trans_dicts, k) /\ ~DictGet(trans_dicts, k).none
    /\ DictHas(meta, k)

HasRule(rules, key) == \E i \in 1 .. Len(rules) : rules[i].k = key
RuleValue(rules, key) ==
    rules[CHOOSE i \in 1 .. Len(rules) : rules[i].k = key].v.alts[1]
IsOffset(rule) == rule.k # <<>> /\ rule.k[1] = CODE_OFFSET
IsRegex(rule) == rule.k # <<>> /\ rule.k[1] = CODE_REGEX
Covers(rule, c) ==
    IsOffset(rule) /\ rule.v.alts[1][1] <= c /\ c <= rule.v.alts[1][2]

\* what the rules of a bundle make of the character c: the offset rule that
\* covers c, else the character rule for c, else the default entry, else c
Replacement(rules, c) ==
    IF \E i \in 1 .. Len(rules) : Covers(rules[i], c)
    THEN chr(c + rules[CHOOSE i \in 1 .. Len(rules) : Covers(rules[i], c)]
                     .v.alts[1][3])
    ELSE IF HasRule(rules, <<c>>) THEN Replace(RuleValue(rules, <<c>>), chr(c))
    ELSE IF HasRule(rules, <<>>) THEN Replace(RuleValue(rules, <<>>), chr(c))
    ELSE chr(c)

RECURSIVE Forwards(_, _, _)
Forwards(rules, str, i) ==
    IF i > Len(str) THEN <<>>
    ELSE Replacement(rules, str[i]) \o Forwards(rules, str, i + 1)

RECURSIVE Backwards(_, _, _)
Backwards(rules, str, i) ==
    IF i > Len(str) THEN <<>>
    ELSE Backwards(rules, str, i + 1) \o Replacement(rules, str[i])

\* translate(s) was the last call, with just the bundle k in the operations
\* list; k is loaded and has no regex pair
OneBundle(k) ==
    /\ tp_op.name = "translate"
    /\ trans_ops_list = <<k>>
    /\ IsReady(k)
    /\ \A i \in 1 .. Len(RulesOf(k)) : ~IsRegex(RulesOf(k)[i])

RECURSIVE AllRegex(_, _, _)
AllRegex(rules, str, i) ==
    IF i > Len(rules) THEN str
    ELSE AllRegex(rules,
                  IF IsRegex(rules[i])
                  THEN RegexSub(rules[i].v.alts[1], str, 1) ELSE str,
                  i + 1)

\* Tk: the regex pairs of bundle k, then its character-level pass
BundlePass(k, str) ==
    CharPass(DictGet(trans_dicts, k), DictGet(meta, k),
             AllRegex(RulesOf(k), str, 1))

\* Tn(...T2(T1(str))...) for ops = [k1, ..., kn]
RECURSIVE Composed(_, _)
Composed(ops, str) ==
    IF ops = <<>> THEN str
    ELSE BundlePass(ops[Len(ops)],
                    Composed(SubSeq(ops, 1, Len(ops) - 1), str))

\* C12: translate(s) with the operations list [k1, ..., kn] of loaded
\* bundles returns Tn(...T2(T1(s))...), Tk being every regex pair of bundle
\* k, in list order, applied to the whole string and then the
\* character-level pass of bundle k; with the empty list it returns s.
C12_Composition ==
    (/\ tp_op.name = "translate"
     /\ \A i \in 1 .. Len(trans_ops_list) : IsReady(trans_ops_list[i]))
    => tp_res = Ok(Composed(trans_ops_list, tp_op.s))

\* the list is [A, B], A with its character rules and regex pairs: 'a'
\* becomes 'b' then 'aA' by A's pairs, '4A' by A's rules, '4a' by B's
C12_Witness ==
    /\ tp_op.name = "translate" /\ tp_op.s = <<97>>
    /\ trans_ops_list = <<[repo |-> "R1", db |-> "A", n |-> 0],
                          [repo |-> "R1", db |-> "B", n |-> 0]>>
    /\ IsReady([repo |-> "R1", db |-> "A", n |-> 0])
    /\ IsReady([repo |-> "R1", db |-> "B", n |-> 0])
    /\ ~DictGet(meta, [repo |-> "R1", db |-> "A", n |-> 0]).rout
    /\ RulesOf([repo |-> "R1", db |-> "A", n |-> 0]) = RulesA({"c", "r"})
    /\ tp_res = Ok(<<52, 97>>)

\* C13: with one reverse-out bundle in the operations list, translate(s)
\* returns the replacements of the characters of s, last character first,
\* each replacement being what the forward pass gives for that character.
C13_AsStated ==
    \A k \in TPKeys :
        (OneBundle(k) /\ DictGet(meta, k).rout)
            => tp_res = Ok(Backwards(RulesOf(k), tp_op.s, 1))

\* C14: add_trans_dict with an unqualified name takes the bundle from the
\* first bound repository that contains it: the call succeeds and the
\* bundle and the metadata of that repository are stored under that
\* repository's key; when no repository contains it the call raises.
C14_AsStated ==
    (tp_op.name = "add_trans_dict" /\ ~tp_op.fq) =>
        LET holders == {i \in 1 .. Len(repos) :
                            tp_op.db \in DOMAIN repos[i].files}
        IN IF holders = {} THEN tp_res.kind # "ok"
           ELSE LET i == CHOOSE j \in holders : \A h \in holders : j <= h
                    k == [repo |-> repos[i].name, db |-> tp_op.db,
                          n |-> tp_op.n]
                    f == repos[i].files[tp_op.db]
                IN /\ tp_res.kind = "ok"
                   /\ IsReady(k)
                   /\ DictGet(meta, k).tag = f.tag
                   /\ DictGet(trans_dicts, k).tdict.map[IntKey(97)] =
                          f.trans[1].v.alts[1]

\* C15: a call of add_trans_dict that raises leaves trans_dicts, meta and
\* the operations list as they were.
C15_AsStated ==
    [][(tp_op'.name = "add_trans_dict" /\ tp_res'.kind # "ok")
       => (/\ trans_dicts' = trans_dicts
           /\ meta' = meta
           /\ trans_ops_list' = trans_ops_list)]_vars

----------------------------------------------------------------------------
(* TextProcessor: loading one bundle with offset, regex and range entries *)

\* a processor bound to R1, whose file A holds any of the entries of
\* BundleRules, in any form
FlatInit ==
    /\ CPIdle /\ InstIdle /\ RILIdle /\ TDIdle /\ RepoIdle
    /\ \E has \in SUBSET {"x", "o", "r", "g", "d"}, form \in Forms :
           repos = <<BoundRepo("R1",
                        [f \in {"A"} |->
                            TPFile(BundleRules(has, form), FALSE, 1)])>>
    /\ FreshTP

FlatNext == \E n \in 0 .. MaxN : AddTransDict(FALSE, "", "A", n)

SpecFlat == FlatInit /\ [][FlatNext]_vars

\* add_trans_dict('A', n) was the last call and it returned
Flattened ==
    /\ tp_op.name = "add_trans_dict"
    /\ tp_res.kind = "ok"
    /\ IsReady([repo |-> "R1", db |-> "A", n |-> tp_op.n])

\* what it stored: [tdict, rest], the flattened dictionary and the elements
\* after it
FlatOf == DictGet(trans_dicts, [repo |-> "R1", db |-> "A", n |-> tp_op.n])
FlatRules == repos[1].files["A"].trans

\* the alternative n of an entry, the first one when there is no such
Chosen(v, n) ==
    IF v.list /\ n < Len(v.alts) THEN v.alts[n + 1] ELSE v.alts[1]

IsRange(rule) == rule.k # <<>> /\ rule.k[1] = CODE_RANGE

\* the code points an offset or range entry covers
KeysOf(rule, n) ==
    LET a == Chosen(rule.v, n) IN
    IF IsOffset(rule) THEN a[1] .. a[2]
    ELSE IF IsRange(rule)
    THEN UNION {a.bounds[2 * i - 1] .. a.bounds[2 * i] :
                   i \in 1 .. (Len(a.bounds) \div 2)}
    ELSE {}

RECURSIVE RegexPairs(_, _, _)
RegexPairs(rules, n, i) ==
    IF i > Len(rules) THEN <<>>
    ELSE (IF IsRegex(rules[i]) THEN <<Chosen(rules[i].v, n)>> ELSE <<>>)
             \o RegexPairs(rules, n, i + 1)

\* the value a range entry gives the code point c
RangeValue(a, c) ==
    LET i == CHOOSE j \in 1 .. (Len(a.bounds) \div 2) :
                 a.bounds[2 * j - 1] <= c /\ c <= a.bounds[2 * j]
    IN Replace(IF Len(a.values) = 1 THEN a.values[1] ELSE a.values[i], chr(c))

----------------------------------------------------------------------------
(* TextProcessor: editing the operations list, translate with an order *)

\* Python's None where a key of trans_dicts is expected
NoneKey == [repo |-> "None", db |-> "None", n |-> -1]

\* an argument that is a bundle name or an int
ByName(k) == [int |-> FALSE, i |-> 0, key |-> k]
ByIndex(i) == [int |-> TRUE, i |-> i, key |-> NoneKey]

\* the optional position p of add_trans_ops: None when left out
NoPos == -99

\* key_by_index(d, i): the i-th key inserted into d, None when i is past
\* the end; a negative i counts from the end, as tuple indexing does
key_by_index(d, i) ==
    IF i >= Len(d) THEN [kind |-> "ok", key |-> NoneKey]
    ELSE IF i < 0 - Len(d) THEN [kind |-> "IndexError", key |-> NoneKey]
    ELSE [kind |-> "ok", key |-> d[IF i < 0 THEN Len(d) + i + 1 ELSE i + 1].k]

\* list.insert(p, x) for any int p
PyInsert(lst, p, x) ==
    ListInsert(lst,
               IF p >= 0 THEN p
               ELSE IF Len(lst) + p < 0 THEN 0 ELSE Len(lst) + p,
               x)

\* tp.add_trans_ops(k, p)
AddTransOpsAt(k, p) ==
    /\ Len(trans_ops_list) < MaxOps
    /\ tp_op' = [name |-> "add_trans_ops", k |-> k, p |-> p]
    /\ LET pos == IF p = NoPos THEN Len(trans_ops_list) ELSE p
           dname == key_by_index(trans_dicts, k.i)
       IN IF k.int
          THEN IF dname.kind # "ok"
               THEN tp_res' = Raise(dname.kind) /\ UNCHANGED trans_ops_list
               ELSE /\ tp_res' = Ok(<<>>)
                    /\ trans_ops_list' =
                           PyInsert(trans_ops_list, pos, dname.key)
          ELSE /\ tp_res' = Ok(<<>>)
               /\ trans_ops_list' =
                      IF DictHas(trans_dicts, k.key)
                      THEN PyInsert(trans_ops_list, pos, k.key)
                      ELSE trans_ops_list
    /\ UNCHANGED <<repos, trans_dicts, meta, cpVars, rilVars, tdVars,
                   repoVars, instVars>>

\* tp.pop_trans_ops(i)
PopTransOps(i) ==
    /\ tp_op' = [name |-> "pop_trans_ops", k |-> i, p |-> NoPos]
    /\ LET len == Len(trans_ops_list)
           at == IF i.int THEN i.i
                 ELSE IF \E j \in 1 .. len : trans_ops_list[j] = i.key
                 THEN (CHOOSE j \in 1 .. len :
                          /\ trans_ops_list[j] = i.key
                          /\ \A h \in 1 .. (j - 1) : trans_ops_list[h] # i.key)
                      - 1
                 ELSE len
           place == IF at < 0 THEN len + at + 1 ELSE at + 1
       IN IF len = 0
          THEN tp_res' = Raise("ValueError") /\ UNCHANGED trans_ops_list
          ELSE IF ~i.int /\ at = len
          THEN tp_res' = Raise("ValueError") /\ UNCHANGED trans_ops_list
          ELSE IF i.int /\ at >= len
          THEN tp_res' = Raise("NameError") /\ UNCHANGED trans_ops_list
          ELSE IF place < 1
          THEN tp_res' = Raise("IndexError") /\ UNCHANGED trans_ops_list
          ELSE /\ tp_res' = Ok(<<>>)
               /\ trans_ops_list' =
                      SubSeq(trans_ops_list, 1, place - 1)
                          \o SubSeq(trans_ops_list, place + 1, len)
    /\ UNCHANGED <<repos, trans_dicts, meta, cpVars, rilVars, tdVars,
                   repoVars, instVars>>

\* tp.clear_trans()
ClearTrans ==
    /\ tp_op' = [name |-> "clear_trans", k |-> ByIndex(0), p |-> NoPos]
    /\ tp_res' = Ok(<<>>)
    /\ trans_dicts' = <<>>
    /\ trans_ops_list' = <<>>
    /\ UNCHANGED <<repos, meta, cpVars, rilVars, tdVars, repoVars, instVars>>

\* olist of translate(s, order): [kind, olist]
RECURSIVE OrderList(_, _, _)
OrderList(dicts, order, j) ==
    IF j > Len(order) THEN [kind |-> "ok", olist |-> <<>>]
    ELSE IF ~order[j].int THEN [kind |-> "TypeError", olist |-> <<>>]
    ELSE LET key == key_by_index(dicts, order[j].i)
             more == OrderList(dicts, order, j + 1)
         IN IF key.kind # "ok" THEN [kind |-> key.kind, olist |-> <<>>]
            ELSE IF more.kind # "ok" THEN more
            ELSE [kind |-> "ok", olist |-> <<key.key>> \o more.olist]

\* tp.translate(s, order)
TranslateOrder(str, order) ==
    /\ tp_op' = [name |-> "translate", s |-> str, order |-> order]
    /\ LET o == IF Len(order) = 0
                THEN [kind |-> "ok", olist |-> trans_ops_list]
                ELSE OrderList(trans_dicts, order, 1)
       IN tp_res' = IF o.kind # "ok" THEN Raise(o.kind)
                    ELSE TranslateLoop(trans_dicts, meta, o.olist, str, 1)
    /\ UNCHANGED <<repos, trans_dicts, meta, trans_ops_list, cpVars, rilVars,
                   tdVars, repoVars, instVars>>

(* Inputs *)

\* bundle A: the regex pair 'a' -> '[' + placeholder + ']' (m) and the
\* default entry placeholder + '!' (d); bundle B: 'b' -> 'c'
RulesM(has) ==
    (IF "m" \in has
     THEN <<[k |-> KeyR1,
             v |-> Single([re |-> <<97>>, repl |-> <<91, SUBPOINT, 93>>])]>>
     ELSE <<>>)
        \o (IF "d" \in has
            THEN <<[k |-> <<>>, v |-> Single(<<SUBPOINT, 33>>)]>> ELSE <<>>)

OpsInit ==
    /\ CPIdle /\ InstIdle /\ RILIdle /\ TDIdle /\ RepoIdle
    /\ \E has \in SUBSET {"m", "d"} :
           repos = <<BoundRepo("R1",
                        [f \in DbNames |->
                            IF f = "A" THEN TPFile(RulesM(has), FALSE, 1)
                            ELSE TPFile(<<[k |-> <<98>>,
                                           v |-> Single(<<99>>)]>>,
                                        FALSE, 2)])>>
    /\ FreshTP

KeyA0 == [repo |-> "R1", db |-> "A", n |-> 0]
KeyB0 == [repo |-> "R1", db |-> "B", n |-> 0]

\* a bundle by name, loaded or not, or by index, in range or not
OpsArgs == {ByName(KeyA0), ByName(KeyB0)} \cup {ByIndex(i) : i \in -1 .. 2}
Positions == {NoPos, -1, 0, 1}
Orders ==
    {<<>>, <<ByIndex(0)>>, <<ByIndex(1)>>, <<ByName(KeyA0)>>,
     <<ByName(KeyB0)>>, <<ByIndex(0), ByName(KeyB0)>>,
     <<ByIndex(1), ByIndex(0)>>}

\* the strings translate is called with here: '', 'a', 'ab'
OpsStrings == {<<>>, <<97>>, <<97, 98>>}

OpsNext ==
    \/ \E tname \in DbNames : AddTransDict(FALSE, "", tname, 0)
    \/ \E k \in OpsArgs, p \in Positions : AddTransOpsAt(k, p)
    \/ \E i \in OpsArgs : PopTransOps(i)
    \/ ClearTrans
    \/ \E str \in OpsStrings, order \in Orders : TranslateOrder(str, order)

SpecOps == OpsInit /\ [][OpsNext]_vars

(* Claims about the operations list and translate with an order *)

\* what an element of an order stands for: the name itself, or the i-th
\* loaded bundle
Named(x) ==
    IF x.int THEN key_by_index(trans_dicts, x.i).key ELSE x.key

\* C24: translate(text, order) with a non-empty order of names and indices
\* of loaded bundles applies the bundles of order, in place of the
\* operations list, and leaves the operations list alone; a name and the
\* index of the same bundle give the same output.
C24_AsStated ==
    (/\ tp_op.name = "translate"
     /\ Len(tp_op.order) > 0
     /\ \A j \in 1 .. Len(tp_op.order) :
            /\ tp_op.order[j].int =>
                   (0 <= tp_op.order[j].i
                    /\ tp_op.order[j].i < Len(trans_dicts))
            /\ IsReady(Named(tp_op.order[j])))
    => tp_res = Ok(Composed([j \in 1 .. Len(tp_op.order) |->
                                Named(tp_op.order[j])],
                            tp_op.s))

\* the bundles translate has just applied: order when given, else the
\* operations list
Applied ==
    IF Len(tp_op.order) > 0
    THEN [j \in 1 .. Len(tp_op.order) |-> Named(tp_op.order[j])]
    ELSE trans_ops_list

\* str with every match of the one-character pattern of the pair p replaced
\* by the replacement, the placeholder standing for the match
RECURSIVE MarkedSub(_, _, _)
MarkedSub(p, str, i) ==
    IF i > Len(str) THEN <<>>
    ELSE (IF str[i] = p.re[1] THEN Replace(p.repl, <<str[i]>>)
          ELSE <<str[i]>>) \o MarkedSub(p, str, i + 1)

\* C25: when the one rule of the applied bundle is a regex pair whose
\* replacement holds the placeholder, translate replaces every match by the
\* replacement with the matched text where the placeholder is.
C25_AsStated ==
    (/\ tp_op.name = "translate"
     /\ Applied = <<KeyA0>>
     /\ IsReady(KeyA0)
     /\ Len(RulesOf(KeyA0)) = 1
     /\ IsRegex(RulesOf(KeyA0)[1]))
    => tp_res = Ok(MarkedSub(RulesOf(KeyA0)[1].v.alts[1], tp_op.s, 1))

\* C29: every element of the operations list is a key of the loaded-bundle
\* table.
C29_AsStated ==
    \A j \in 1 .. Len(trans_ops_list) :
        DictHas(trans_dicts, trans_ops_list[j])

----------------------------------------------------------------------------
(* TextProcessor: two instances *)

\* self.repos of instance i
ReposOf(i) == IF tps[i].noarg THEN repo_dict ELSE tps[i].repos

\* d[r] = repo on a dict of repositories
SetRepo(d, r) ==
    IF \E j \in 1 .. Len(d) : d[j] = r THEN d ELSE Append(d, r)

\* tp_i = TextProcessor() (noarg) or tp_i = TextProcessor({})
NewTP(i, noarg) ==
    /\ ~tps[i].made
    /\ tps' = [tps EXCEPT ![i] = [NoInst EXCEPT !.made = TRUE,
                                                !.noarg = noarg]]
    /\ inst_op' = [name |-> "new", inst |-> i, repo |-> ""]
    /\ UNCHANGED <<repo_dict, cpVars, rilVars, tdVars, repoVars, tpVars>>

\* tp_i.add_repo(repo): repo is a JSONRepo of the directory r, or (isrepo
\* false) some other object
AddRepo(i, r, isrepo) ==
    /\ tps[i].made
    /\ inst_op' = [name |-> "add_repo", inst |-> i, repo |-> r]
    /\ IF ~isrepo THEN UNCHANGED <<repo_dict, tps>>
       ELSE IF tps[i].noarg
       THEN repo_dict' = SetRepo(repo_dict, r) /\ UNCHANGED tps
       ELSE /\ tps' = [tps EXCEPT ![i].repos = SetRepo(@, r)]
            /\ UNCHANGED repo_dict
    /\ UNCHANGED <<cpVars, rilVars, tdVars, repoVars, tpVars>>

\* the name tp_i is unbound again (del tp_i); the default dict stays
DelTP(i) ==
    /\ tps[i].made
    /\ tps' = [tps EXCEPT ![i] = NoInst]
    /\ inst_op' = [name |-> "del", inst |-> i, repo |-> ""]
    /\ UNCHANGED <<repo_dict, cpVars, rilVars, tdVars, repoVars, tpVars>>

InstInit ==
    /\ CPIdle /\ RILIdle /\ TDIdle /\ RepoIdle /\ TPIdle
    /\ InstIdle

InstNext ==
    \/ \E i \in InstIds, noarg \in BOOLEAN : NewTP(i, noarg)
    \/ \E i \in InstIds, r \in {"R1", "R2", "R3"}, isrepo \in BOOLEAN :
           AddRepo(i, r, isrepo)
    \/ \E i \in InstIds : DelTP(i)

SpecInst == InstInit /\ [][InstNext]_vars

\* C30: add_repo on one of two instances created without arguments leaves
\* the repositories, the loaded bundles and the operations list of the
\* other as they were.
C30_AsStated ==
    [][\A i \in InstIds, j \in InstIds :
          (/\ i # j
           /\ tps[i].made /\ tps[i].noarg
           /\ tps[j].made /\ tps[j].noarg
           /\ inst_op'.name = "add_repo" /\ inst_op'.inst = i)
          => /\ ReposOf(j)' = ReposOf(j)
             /\ tps'[j].trans_dicts = tps[j].trans_dicts
             /\ tps'[j].trans_ops_list = tps[j].trans_ops_list]_vars

====
